---- MODULE Spec2Model ----
(***************************************************************************)
(* Mesh/grid editor: the bounded undo/redo History Store (useHistory), the *)
(* Geometry Engine (parseSubdivisionRules, generateGrid), the Coordinate   *)
(* Mapper / Drag Controller (MeshCanvas) and the Editor Orchestrator (App).*)
(*                                                                         *)
(* Conventions.                                                            *)
(*  - `index` is 0-based as in the code; history is a 1-based sequence, so *)
(*    the code's history[index] is history[index + 1] here.                *)
(*  - JavaScript null / undefined are the record NoDrag, the strings       *)
(*    "null" (a colour, a constraint) and the record Undefined (a read of  *)
(*    history past its end).                                               *)
(*  - One action is one browser event: the handler, the re-render and the  *)
(*    effects the re-render schedules (App's "Local State Sync" effect).   *)
(*  - Coordinates are JavaScript numbers. In the editor every input set is *)
(*    chosen so that each product and quotient the code computes is an     *)
(*    integer, which makes the integer arithmetic here exact. Where        *)
(*    rounding is the question, the generator runs on doubles (SpecSpan).  *)
(*  - Spec is the editor, SpecHistory the History Store alone; SpecGrid,   *)
(*    SpecSpan, SpecRules, SpecPolygon and SpecColor call generateGrid,    *)
(*    parseSubdivisionRules, isPointInPolygon and getDisplacementColor     *)
(*    directly, SpecCounts is the Grid Settings panel with any counts,     *)
(*    SpecReset the editor with its history filled by Reset clicks.        *)
(***************************************************************************)
EXTENDS Integers, Sequences, FiniteSets, TLC

VARIABLES
    history,        \* useHistory: const [history, setHistory]
    index,          \* useHistory: const [index, setIndex]
    pushes,         \* number of pushState calls so far (also names snapshots)
    undos,          \* number of undo calls so far (History Store runs only)
    lastOp,         \* the History Store operation of the last step; editor marks
    mode,           \* App: const [mode, setMode]
    activeColor,    \* App: const [activeColor, setActiveColor]
    gridConfig,     \* App: const [gridConfig, setGridConfig] (the sidebar's copy)
    isPenDrawing,   \* App: const [isPenDrawing, setIsPenDrawing]
    drawingPoints,  \* App: const [drawingPoints, setDrawingPoints]
    localVertices,  \* App: const [localVertices, setLocalVertices]
    localBoundary,  \* App: const [localBoundary, setLocalBoundary]
    dragState,      \* MeshCanvas: const [dragState, setDragState]
    reported,       \* the onVertexMove / onBoundaryMove call of the last step
    alerted,        \* the alert() message of the last step ("" if none)
    callArgs,       \* the arguments of a direct call of a geometry function
    callResult      \* what that call returned (NoCall before it)

histVars == <<history, index, pushes, undos, lastOp>>
docVars == <<history, index, pushes, localVertices, localBoundary, gridConfig>>
uiVars == <<mode, activeColor, isPenDrawing, drawingPoints>>
editorVars == <<mode, activeColor, gridConfig, isPenDrawing, drawingPoints,
                localVertices, localBoundary, dragState, reported, alerted>>
\* the variables of the direct calls, and those the editor never touches
callVars == <<callArgs, callResult>>
idleVars == <<undos, callVars>>
vars == <<history, index, pushes, undos, lastOp, mode, activeColor, gridConfig,
          isPenDrawing, drawingPoints, localVertices, localBoundary, dragState,
          reported, alerted, callArgs, callResult>>

\* ---------------------------------------------------------------- bounds

\* pushState calls explored on the bare History Store (capacity is 50).
MaxPushes == 52
\* undo calls explored on the bare History Store.
MaxUndos == 2

\* ------------------------------------------------------------ small helpers

Min(a, b) == IF a < b THEN a ELSE b
Max(a, b) == IF a > b THEN a ELSE b

\* ------------------------------------------------------------ History Store

\* `if (newHistory.length > 50) newHistory.shift()` and
\* `nextIndex > 50 ? 50 : nextIndex`
HISTORY_CAP == 50

\* history[index] past the end of the array
Undefined == [undefined |-> TRUE]

\* Array.prototype.slice(0, n)
Slice0(arr, n) == SubSeq(arr, 1, Min(Max(n, 0), Len(arr)))

\* pushState's history without the eviction at the front
PushedHistory_NoEviction(prev, idx, newState) ==
    Append(Slice0(prev, idx + 1), newState)

\* setHistory(prev => ...) of pushState, with the index the callback closed over
PushedHistory(prev, idx, newState) ==
    LET newHistory == Append(Slice0(prev, idx + 1), newState)
    IN  IF Len(newHistory) > HISTORY_CAP THEN Tail(newHistory) ELSE newHistory

\* setIndex(prev => ...) of pushState
PushedIndex(prev) ==
    LET nextIndex == prev + 1
    IN  IF nextIndex > HISTORY_CAP THEN HISTORY_CAP ELSE nextIndex

\* undo's index without the floor at 0
UndoIndex_NoFloor(prev) == prev - 1

\* setIndex(prev => Math.max(0, prev - 1))
UndoIndex(prev) == Max(0, prev - 1)

\* setIndex(prev => Math.min(history.length - 1, prev + 1))
RedoIndex(hist, prev) == Min(Len(hist) - 1, prev + 1)

\* const currentState = history[index]
StateAt(hist, idx) ==
    IF idx + 1 \in DOMAIN hist THEN hist[idx + 1] ELSE Undefined

currentState == StateAt(history, index)

canUndo == index > 0
canRedo == index < Len(history) - 1

\* ------------------------------------------------------------ types.ts

SVG_WIDTH == 1000
SVG_HEIGHT == 2000
GRID_MARGIN == 50

\* A JavaScript number that may be NaN (parseInt of an emptied number field).
Num(n) == [nan |-> FALSE, v |-> n]
NaN == [nan |-> TRUE, v |-> 0]
isNaN(n) == n.nan

\* --------------------------------------------------- Geometry Engine: rules

\* A rule string is the sequence of its characters.
Digits == {"0", "1", "2", "3", "4", "5", "6", "7", "8", "9"}
DigitValue(ch) ==
    CASE ch = "0" -> 0 [] ch = "1" -> 1 [] ch = "2" -> 2 [] ch = "3" -> 3
      [] ch = "4" -> 4 [] ch = "5" -> 5 [] ch = "6" -> 6 [] ch = "7" -> 7
      [] ch = "8" -> 8 [] ch = "9" -> 9
\* the characters String.prototype.trim and the regex class \s take as blank
Whitespace == {" "}

\* String.prototype.toUpperCase, one character
UpperChar(ch) ==
    CASE ch = "c" -> "C" [] ch = "r" -> "R" [] ch = "x" -> "X" [] OTHER -> ch
toUpperCase(str) == [i \in 1..Len(str) |-> UpperChar(str[i])]

\* String.prototype.trim
RECURSIVE TrimLeft(_)
TrimLeft(str) ==
    IF str # <<>> /\ Head(str) \in Whitespace THEN TrimLeft(Tail(str)) ELSE str
RECURSIVE TrimRight(_)
TrimRight(str) ==
    IF str # <<>> /\ str[Len(str)] \in Whitespace
    THEN TrimRight(SubSeq(str, 1, Len(str) - 1))
    ELSE str
trim(str) == TrimRight(TrimLeft(str))

\* String.prototype.split(','): the pieces between commas, empty ones included
RECURSIVE SplitFrom(_, _, _)
SplitFrom(str, i, piece) ==
    IF i > Len(str) THEN <<piece>>
    ELSE IF str[i] = "," THEN <<piece>> \o SplitFrom(str, i + 1, <<>>)
    ELSE SplitFrom(str, i + 1, Append(piece, str[i]))
split(str) == SplitFrom(str, 1, <<>>)

\* Array.prototype.filter(s => s.length > 0)
RECURSIVE FilterNonEmpty(_)
FilterNonEmpty(parts) ==
    IF parts = <<>> THEN <<>>
    ELSE IF Len(Head(parts)) > 0
         THEN <<Head(parts)>> \o FilterNonEmpty(Tail(parts))
         ELSE FilterNonEmpty(Tail(parts))

\* first position >= i of str whose character is not in class (Len + 1 if none)
RECURSIVE SkipClass(_, _, _)
SkipClass(str, i, class) ==
    IF i <= Len(str) /\ str[i] \in class THEN SkipClass(str, i + 1, class) ELSE i

\* parseInt of a run of decimal digits
RECURSIVE parseInt(_)
parseInt(digits) ==
    IF digits = <<>> THEN 0
    ELSE 10 * parseInt(SubSeq(digits, 1, Len(digits) - 1))
         + DigitValue(digits[Len(digits)])

NoMatch == [ok |-> FALSE, type |-> "", index |-> 0, mult |-> 0]

\* part.match(/^([CR])\s*(\d+)\s*:\s*(\d+)$/) with the groups parsed; the
\* classes [CR], \s, \d and ':' are disjoint, so greedy matching decides.
MatchRule(part) ==
    IF part = <<>> \/ part[1] \notin {"C", "R"} THEN NoMatch
    ELSE
      LET a == SkipClass(part, 2, Whitespace)
          b == SkipClass(part, a, Digits)
          c == SkipClass(part, b, Whitespace)
      IN  IF b = a \/ c > Len(part) \/ part[c] # ":" THEN NoMatch
          ELSE
            LET d == SkipClass(part, c + 1, Whitespace)
                e == SkipClass(part, d, Digits)
            IN  IF e = d \/ e # Len(part) + 1 THEN NoMatch
                ELSE [ok |-> TRUE, type |-> part[1],
                      index |-> parseInt(SubSeq(part, a, b - 1)),
                      mult |-> parseInt(SubSeq(part, d, e - 1))]

\* an assignment that keeps the value a key already has
SetKey_KeepFirst(map, k, val) ==
    [j \in (DOMAIN map) \cup {k} |-> IF j \in DOMAIN map THEN map[j] ELSE val]

\* rules.cols[index] = mult on a Record<number, number>
SetKey(map, k, val) ==
    [j \in (DOMAIN map) \cup {k} |-> IF j = k THEN val ELSE map[j]]

EmptyMap == [j \in {} |-> 0]
EmptyRules == [cols |-> EmptyMap, rows |-> EmptyMap]

\* the body of parts.forEach(part => ...)
ApplyRule(rules, part, baseCols, baseRows) ==
    LET match == MatchRule(part)
    IN  IF ~match.ok THEN rules
        ELSE IF match.mult <= 0 THEN rules
        ELSE IF match.type = "C" /\ match.index >= 0 /\ match.index < baseCols
             THEN [rules EXCEPT !.cols = SetKey(rules.cols, match.index, match.mult)]
        ELSE IF match.type = "R" /\ match.index >= 0 /\ match.index < baseRows
             THEN [rules EXCEPT !.rows = SetKey(rules.rows, match.index, match.mult)]
        ELSE rules

RECURSIVE ApplyRules(_, _, _, _)
ApplyRules(rules, parts, baseCols, baseRows) ==
    IF parts = <<>> THEN rules
    ELSE ApplyRules(ApplyRule(rules, Head(parts), baseCols, baseRows),
                    Tail(parts), baseCols, baseRows)

parseSubdivisionRules(rulesString, baseCols, baseRows) ==
    IF rulesString = <<>> THEN EmptyRules
    ELSE
      LET pieces == split(rulesString)
          parts == FilterNonEmpty(
                     [i \in 1..Len(pieces) |-> toUpperCase(trim(pieces[i]))])
      IN  ApplyRules(EmptyRules, parts, baseCols, baseRows)

\* ------------------------------------------------------------ IEEE doubles

\* The generator divides and adds JavaScript numbers.  Every double it meets
\* lies between 2^-31 and 2^16, so each is, exactly, a whole number of units
\* of 2^-84: it is written as a numeral of Limbs digits in base 2^LimbBits,
\* most significant first, with FixInt binary places before the point.  An
\* operation computes its exact result and rounds it to the nearest double
\* (Mantissa significant bits), ties to even.
Mantissa == 53
FixInt == 16
Limbs == 5
LimbBits == 20
LimbBase == 2 ^ LimbBits
FixFrac == Limbs * LimbBits - FixInt

\* a numeral given digit by digit, as the tuple of its digits
Numeral(digit) == digit \o <<>>

\* the double of a whole number 0 <= n < 2^FixInt
DoubleOf(n) ==
    Numeral([i \in 1..Limbs |-> IF i = 1 THEN n * (2 ^ (LimbBits - FixInt)) ELSE 0])

\* the numeral of 2^q units, and 2^-k as a double
UnitPow2(q) ==
    Numeral([i \in 1..Limbs |-> IF i = Limbs - (q \div LimbBits)
                                   THEN 2 ^ (q % LimbBits) ELSE 0])
DoublePow2Neg(k) == UnitPow2(FixFrac - k)

\* the exact sum of two numerals (no carry out of the front)
RECURSIVE CarryInto(_, _, _)
CarryInto(a, b, i) ==
    IF i = Len(a) THEN 0
    ELSE (a[i + 1] + b[i + 1] + CarryInto(a, b, i + 1)) \div LimbBase
AddNumerals(a, b) ==
    Numeral([i \in 1..Len(a) |-> (a[i] + b[i] + CarryInto(a, b, i)) % LimbBase])

\* the exact product of a numeral and a whole number 0 <= n < 2^11 (no carry
\* out of the front)
RECURSIVE CarryOfProduct(_, _, _)
CarryOfProduct(a, n, i) ==
    IF i = Len(a) THEN 0
    ELSE (a[i + 1] * n + CarryOfProduct(a, n, i + 1)) \div LimbBase
MulNumeral(a, n) ==
    Numeral([i \in 1..Len(a) |-> (a[i] * n + CarryOfProduct(a, n, i)) % LimbBase])

\* long division of a numeral by a whole number 0 < n < 2^11: quotient and
\* remainder
RECURSIVE LongDiv(_, _, _, _, _)
LongDiv(a, n, i, r, acc) ==
    IF i > Len(a) THEN [q |-> acc, r |-> r]
    ELSE LET t == r * LimbBase + a[i]
         IN  LongDiv(a, n, i + 1, t % n, Append(acc, t \div n))

\* the binary digit of weight 2^q units
BitAt(a, q) == (a[Limbs - (q \div LimbBits)] \div (2 ^ (q % LimbBits))) % 2

\* Round to nearest, ties to even: keep Mantissa bits from the leading 1 of
\* the numeral; `sticky` tells of a non-zero rest below its last digit.
RoundDouble(a, sticky) ==
    LET used == {i \in 1..Limbs : a[i] # 0}
    IN  IF used = {} THEN a
        ELSE
          LET top == CHOOSE i \in used : \A j \in used : i <= j
              high == CHOOSE h \in 1..LimbBits :
                         2 ^ (h - 1) <= a[top] /\ a[top] < 2 ^ h
              last == (Limbs - top) * LimbBits + high - Mantissa
          IN  IF last < 0 \/ (last = 0 /\ ~sticky) THEN a
              ELSE
                LET guard == IF last = 0 THEN FALSE ELSE BitAt(a, last - 1) = 1
                    rest == sticky \/ \E q \in 0..(last - 2) : BitAt(a, q) = 1
                    up == guard /\ (rest \/ BitAt(a, last) = 1)
                    kept == Numeral([i \in 1..Limbs |->
                              LET low == (Limbs - i) * LimbBits
                              IN  IF low >= last THEN a[i]
                                  ELSE IF low + LimbBits <= last THEN 0
                                  ELSE a[i] - (a[i] % (2 ^ (last - low)))])
                IN  IF up THEN AddNumerals(kept, UnitPow2(last)) ELSE kept

\* a + b and a / n on doubles (n a whole number)
DoubleSum(a, b) == RoundDouble(AddNumerals(a, b), FALSE)
DoubleQuot(a, n) ==
    LET d == LongDiv(a, n, 1, 0, <<>>)
    IN  RoundDouble(d.q, d.r # 0)

\* a <= b on numerals
NumeralLeq(a, b) ==
    LET differ == {i \in DOMAIN a : a[i] # b[i]}
    IN  \/ differ = {}
        \/ LET i == CHOOSE i \in differ : \A j \in differ : i <= j
            IN  a[i] < b[i]

\* ---------------------------------------------------- Geometry Engine: grid

\* a guard against NaN alone
SafeCount_NaNOnly(n) == IF isNaN(n) THEN 1 ELSE n.v

\* Math.max(1, isNaN(n) ? 1 : n)
SafeCount(n) == Max(1, IF isNaN(n) THEN 1 ELSE n.v)

\* a generator that ignores the rules
Multiplier_Ignored(map, c) == 1

\* rules.cols[c] || 1
Multiplier(map, c) == IF c \in DOMAIN map /\ map[c] # 0 THEN map[c] ELSE 1

\* The generator's arithmetic is read in one of two ways: on doubles, as the
\* code runs it, or on whole numbers, which is the same thing wherever every
\* quotient is whole (the grids the editor is run on).
NumberOf(number, n) == IF number = "double" THEN DoubleOf(n) ELSE n
Quot(number, a, n) == IF number = "double" THEN DoubleQuot(a, n) ELSE a \div n
Sum(number, a, b) == IF number = "double" THEN DoubleSum(a, b) ELSE a + b

\* a strip as wide as its whole division
StripWidth_Undivided(number, baseStep, multiplier) == baseStep

\* baseStep / multiplier
StripWidth(number, baseStep, multiplier) == Quot(number, baseStep, multiplier)

\* colWidths / rowHeights: division c (0-based) contributes `multiplier`
\* strips of width (gridArea / safeCount) / multiplier
RECURSIVE Strips(_, _, _, _, _)
Strips(number, gridArea, safeCount, map, c) ==
    IF c >= safeCount THEN <<>>
    ELSE
      LET multiplier == Multiplier(map, c)
          baseStep == Quot(number, NumberOf(number, gridArea), safeCount)
      IN  [i \in 1..multiplier |-> StripWidth(number, baseStep, multiplier)]
          \o Strips(number, gridArea, safeCount, map, c + 1)

\* the running currentX / currentY of the vertex loops: the coordinates of
\* the points 0, 1, ... along an axis, `coords` holding those found so far
RECURSIVE AxisCoords(_, _, _)
AxisCoords(number, widths, coords) ==
    IF Len(coords) > Len(widths) THEN coords
    ELSE AxisCoords(number, widths,
                    Append(coords, Sum(number, coords[Len(coords)],
                                       widths[Len(coords)])))

\* the corners of a cell indexed with the cells per row as the stride
CellCorners_CellStride(r, c, totalXPoints) ==
    LET stride == totalXPoints - 1
    IN  <<r * stride + c, r * stride + c + 1,
          (r + 1) * stride + c + 1, (r + 1) * stride + c>>

\* v_indices of the cell in row r, column c: [tl, tr, br, bl]
CellCorners(r, c, totalXPoints) ==
    LET tl == r * totalXPoints + c
        tr == r * totalXPoints + c + 1
        br == (r + 1) * totalXPoints + c + 1
        bl == (r + 1) * totalXPoints + c
    IN  <<tl, tr, br, bl>>

\* an id that restarts at 0 on every row
VertexId_PerRow(r, c, totalXPoints) == c

\* the value of vertexId++ when the loops push the vertex of row r, column c
VertexId(r, c, totalXPoints) == r * totalXPoints + c

generateGridIn(number, baseCols, baseRows, rules) ==
    LET safeCols == SafeCount(baseCols)
        safeRows == SafeCount(baseRows)
        gridAreaX == SVG_WIDTH - 2 * GRID_MARGIN
        gridAreaY == SVG_HEIGHT - 2 * GRID_MARGIN
        colWidths == Strips(number, gridAreaX, safeCols, rules.cols, 0)
        rowHeights == Strips(number, gridAreaY, safeRows, rules.rows, 0)
        totalXPoints == Len(colWidths) + 1
        totalYPoints == Len(rowHeights) + 1
        xs == AxisCoords(number, colWidths, <<NumberOf(number, GRID_MARGIN)>>)
        ys == AxisCoords(number, rowHeights, <<NumberOf(number, GRID_MARGIN)>>)
        actualRows == totalYPoints - 1
        actualCols == totalXPoints - 1
    IN  [vertices |->
            [n \in 1..(totalXPoints * totalYPoints) |->
                LET r == (n - 1) \div totalXPoints
                    c == (n - 1) % totalXPoints
                    x == xs[c + 1]
                    y == ys[r + 1]
                IN  [x |-> x, y |-> y, originalX |-> x, originalY |-> y,
                     id |-> VertexId(r, c, totalXPoints)]],
         cells |->
            [n \in 1..(actualRows * actualCols) |->
                LET r == (n - 1) \div actualCols
                    c == (n - 1) % actualCols
                IN  [id |-> n - 1, v_indices |-> CellCorners(r, c, totalXPoints),
                     color |-> "null", isFilled |-> FALSE]]]

\* generateGrid on the editor's grids, whose widths are whole numbers
generateGrid(baseCols, baseRows, rules) ==
    generateGridIn("whole", baseCols, baseRows, rules)

\* ------------------------------------------------------- Geometry: queries

\* the mean of the four corners' rest positions
getCellCenter_Rest(cell, vertices) ==
    LET v0 == vertices[cell.v_indices[1] + 1]
        v1 == vertices[cell.v_indices[2] + 1]
        v2 == vertices[cell.v_indices[3] + 1]
        v3 == vertices[cell.v_indices[4] + 1]
    IN  [x |-> v0.originalX + v1.originalX + v2.originalX + v3.originalX,
         y |-> v0.originalY + v1.originalY + v2.originalY + v3.originalY,
         d |-> 4]

\* getCellCenter: the mean of the four corners, kept exact as the corner sum
\* over the denominator d = 4
getCellCenter(cell, vertices) ==
    LET v0 == vertices[cell.v_indices[1] + 1]
        v1 == vertices[cell.v_indices[2] + 1]
        v2 == vertices[cell.v_indices[3] + 1]
        v3 == vertices[cell.v_indices[4] + 1]
    IN  [x |-> v0.x + v1.x + v2.x + v3.x,
         y |-> v0.y + v1.y + v2.y + v3.y,
         d |-> 4]

\* the denominator of a point's coordinates (1 for a plain {x, y})
Den(point) == IF "d" \in DOMAIN point THEN point.d ELSE 1

\* an `intersect` that asks only whether the edge straddles the point's height
Intersect_AnySide(point, vs, i, j) ==
    LET d == Den(point)
    IN  (d * vs[i].y > point.y) # (d * vs[j].y > point.y)

\* `intersect` of the ray-casting loop for the edge vs[j] -> vs[i] (1-based):
\* ((yi > y) !== (yj > y)) && (x < (xj - xi) * (y - yi) / (yj - yi) + xi),
\* with the division cleared by multiplying through by d * (yj - yi)
Intersect(point, vs, i, j) ==
    LET d == Den(point)
        xi == vs[i].x
        yi == vs[i].y
        xj == vs[j].x
        yj == vs[j].y
        lhs == (point.x - d * xi) * (yj - yi)
        rhs == (xj - xi) * (point.y - d * yi)
    IN  /\ (d * yi > point.y) # (d * yj > point.y)
        /\ IF yj - yi > 0 THEN lhs < rhs ELSE lhs > rhs

\* `inside` after the loop has handled edges 1..i (j = i - 1, or the last
\* point for the first edge)
RECURSIVE InsideAfter(_, _, _)
InsideAfter(point, vs, i) ==
    IF i = 0 THEN FALSE
    ELSE LET j == IF i = 1 THEN Len(vs) ELSE i - 1
             before == InsideAfter(point, vs, i - 1)
         IN  IF Intersect(point, vs, i, j) THEN ~before ELSE before

isPointInPolygon(point, vs) ==
    IF Len(vs) < 3 THEN FALSE ELSE InsideAfter(point, vs, Len(vs))

\* Math.sqrt of a whole number that is a square (the displacements explored
\* are whole on each axis and whole in length)
Sqrt(n) == CHOOSE r \in 0..n : r * r = n

\* Math.floor of a double with sign: the whole part of the magnitude, one
\* further from zero if the double is negative and has a fraction
Floor(neg, mag) ==
    LET unit == 2 ^ (LimbBits - FixInt)
        whole == mag[1] \div unit
        fraction == mag[1] % unit # 0 \/ \E i \in 2..Limbs : mag[i] # 0
    IN  IF ~neg THEN whole ELSE IF fraction THEN -(whole + 1) ELSE -whole

\* Number.prototype.toString(16) of a whole number, as a string of characters
HexDigits == <<"0", "1", "2", "3", "4", "5", "6", "7", "8", "9",
               "a", "b", "c", "d", "e", "f">>
RECURSIVE toString16(_)
toString16(n) ==
    IF n < 0 THEN <<"-">> \o toString16(-n)
    ELSE IF n < 16 THEN <<HexDigits[n + 1]>>
    ELSE toString16(n \div 16) \o <<HexDigits[(n % 16) + 1]>>

\* String.prototype.padStart(2, '0')
padStart2(str) ==
    IF Len(str) >= 2 THEN str
    ELSE IF Len(str) = 1 THEN <<"0">> \o str ELSE <<"0", "0">>

\* `intensity` of getDisplacementColor.  scale is a double with a sign,
\* [neg, mag]; totalDisp is a whole number, so avgDisp = totalDisp / 4 is
\* exact, avgDisp * scale is the exact product mag * totalDisp / 4 rounded
\* once, and the product with 200 is rounded again.
Intensity(cell, vertices, scale) ==
    LET Disp(k) ==
          LET v == vertices[cell.v_indices[k] + 1]
              dx == v.x - v.originalX
              dy == v.y - v.originalY
          IN  Sqrt(dx * dx + dy * dy)
        totalDisp == Disp(1) + Disp(2) + Disp(3) + Disp(4)
        scaled == DoubleQuot(MulNumeral(scale.mag, totalDisp), 4)
        mapped == RoundDouble(MulNumeral(scaled, 200), FALSE)
    IN  Min(255, Floor(scale.neg, mapped))

getDisplacementColor(cell, vertices, scale) ==
    LET hex == padStart2(toString16(Intensity(cell, vertices, scale)))
    IN  <<"#">> \o hex \o hex \o hex

\* ------------------------------------------------------------ editor inputs

\* pushState calls explored in the editor
MaxEditorPushes == 2
\* pushState calls explored in the runs that fill the history with Reset
\* clicks (capacity is 50), and the clicks made before anything else is tried
MaxResetPushes == 50
ResetsFirst == 48
\* canvas clicks accumulated in one pen drawing
MaxPenPoints == 3

\* svgRef.current.getBoundingClientRect(): the surface is SVG_WIDTH * zoom by
\* SVG_HEIGHT * zoom on screen, at a layout offset. zoom is UI state that a
\* wheel or slider event may change between any two pointer events and that
\* nothing else reads, so each pointer event takes it as an input, in tenths.
Zooms == {5}
Rect(zoom10) ==
    [left |-> 50, top |-> 50,
     width |-> (SVG_WIDTH * zoom10) \div 10,
     height |-> (SVG_HEIGHT * zoom10) \div 10]

Pt(x, y) == [x |-> x, y |-> y]

\* pointer positions (clientX, clientY) of pointer-down and pointer-move
DownPoints == {Pt(100, 100)}
MovePoints == {Pt(100, 150), Pt(130, 155), Pt(100, 104), Pt(-2300, 100)}
\* the canvas clicks of a pen drawing, in click order; the first is above
\* the canvas and the last is off-canvas to the left and below. The triangle
\* they make leaves the centre of cell 0 just outside its left edge.
PenPath == <<Pt(240, 20), Pt(1000, 100), Pt(-40, 2500)>>
\* handles and cells the pointer is put on
DragVertexIds == {0}
DragBoundaryIds == {0}
ClickCellIds == {0}
\* palette colours picked (DEFAULT_COLORS[0] is the initial one)
Colors == {"#888888", "#b8b3b3"}
Modes == {"UV", "DISPLACEMENT"}
\* sidebar edits of the grid configuration: (key, value)
RuleInitial == <<"C", "0", ":", "2", ",", "R", "1", ":", "2">>
ConfigEdits ==
    { <<"baseRows", Num(1)>> }

\* ------------------------------------------------------- Editor Orchestrator

\* INITIAL_CONFIG, scaled down from 10 columns and 'C1:4,R3:2' to one column
\* with the same shape of rule string; initialRows is
\* Math.round(initialCols * gridRatio) as in the code.
gridRatioNum == SVG_HEIGHT - 2 * GRID_MARGIN
gridRatioDen == SVG_WIDTH - 2 * GRID_MARGIN
\* Math.round(cols * gridRatio) for a positive integer cols
RoundRatio(cols) == (2 * cols * gridRatioNum + gridRatioDen) \div (2 * gridRatioDen)

INITIAL_CONFIG ==
    [baseCols |-> Num(1), baseRows |-> Num(RoundRatio(1)), ruleString |-> RuleInitial]

initialRules ==
    parseSubdivisionRules(INITIAL_CONFIG.ruleString,
                          INITIAL_CONFIG.baseCols.v, INITIAL_CONFIG.baseRows.v)
initialGrid == generateGrid(INITIAL_CONFIG.baseCols, INITIAL_CONFIG.baseRows, initialRules)

INITIAL_STATE ==
    [vertices |-> initialGrid.vertices,
     cells |-> initialGrid.cells,
     boundaryPoints |-> <<>>,
     gridConfig |-> INITIAL_CONFIG]

NoDrag ==
    [type |-> "null", id |-> 0, startX |-> 0, startY |-> 0,
     initialItemX |-> 0, initialItemY |-> 0, constraint |-> "null"]
NoReport == [kind |-> "none", id |-> 0, x |-> 0, y |-> 0, isFinished |-> FALSE]
\* no direct call of a geometry function (made, or returned yet)
NoCall == [fn |-> "none"]
Report(kind, id, x, y, isFinished) ==
    [kind |-> kind, id |-> id, x |-> x, y |-> y, isFinished |-> isFinished]

InitEditorVars ==
    /\ mode = "UV"
    /\ activeColor = "#888888"
    /\ gridConfig = INITIAL_CONFIG
    /\ isPenDrawing = FALSE
    /\ drawingPoints = <<>>
    /\ localVertices = INITIAL_STATE.vertices
    /\ localBoundary = INITIAL_STATE.boundaryPoints
    /\ dragState = NoDrag
    /\ reported = NoReport
    /\ alerted = ""

Init ==
    /\ history = <<INITIAL_STATE>>
    /\ index = 0
    /\ pushes = 0
    /\ undos = 0
    /\ lastOp = "init"
    /\ InitEditorVars
    /\ callArgs = NoCall
    /\ callResult = NoCall

\* App renders only while history[index] is a snapshot (state.vertices throws
\* on undefined).
Rendered == currentState # Undefined

\* an effect that renews the sidebar's configuration only
SyncLocal_ConfigOnly(st) ==
    /\ UNCHANGED <<localVertices, localBoundary>>
    /\ gridConfig' = st.gridConfig

\* The "Local State Sync" effect, run after a render in which `state` is a
\* different snapshot object. With `state` undefined the render throws (at
\* useState(state.vertices)) and no effect runs.
SyncLocal(st) ==
    IF st = Undefined
    THEN UNCHANGED <<localVertices, localBoundary, gridConfig>>
    ELSE /\ localVertices' = st.vertices
         /\ localBoundary' = st.boundaryPoints
         /\ gridConfig' = st.gridConfig

\* pushState(newState) from a handler, then the re-render and the sync effect
Commit(newState) ==
    /\ history' = PushedHistory(history, index, newState)
    /\ index' = PushedIndex(index)
    /\ pushes' = pushes + 1
    /\ SyncLocal(StateAt(history', index'))

Quiet == reported' = NoReport /\ alerted' = ""

\* In the editor lastOp marks the state right after Cancel, which no program
\* variable tells from the state before the drawing, and the state right
\* after a regenerate that had a count to sanitize; every other event leaves
\* it at "init".
Unmarked == lastOp' = "init"

\* Events other than undo and redo are explored while a push is still within
\* the budget: a drag that starts can be released, a drawing finished. (A
\* cell click that is rejected pushes nothing and is explored regardless.)
InBudget ==
    pushes < IF callArgs.fn = "handleResetPositions" THEN MaxResetPushes
             ELSE MaxEditorPushes

\* A click on a sidebar control, a cell or a handle needs the pointer, which
\* a drag in progress holds until its pointer-up (one pointer); keyboard
\* shortcuts and the click the svg itself receives do not.
PointerFree == dragState = NoDrag

\* --- keyboard shortcuts and top-bar buttons

\* `if (canUndo) undo()` / the Undo button (disabled unless canUndo)
Undo ==
    /\ Rendered
    /\ canUndo
    /\ index' = UndoIndex(index)
    /\ SyncLocal(StateAt(history, index'))
    /\ Quiet
    /\ Unmarked /\ UNCHANGED <<history, pushes, idleVars, uiVars, dragState>>

\* `if (canRedo) redo()` / the Redo button (disabled unless canRedo)
Redo ==
    /\ Rendered
    /\ canRedo
    /\ index' = RedoIndex(history, index)
    /\ SyncLocal(StateAt(history, index'))
    /\ Quiet
    /\ Unmarked /\ UNCHANGED <<history, pushes, idleVars, uiVars, dragState>>

\* --- sidebar

\* Sidebar.handleConfigChange(key, value)
ConfigChange(key, value) ==
    /\ Rendered
    /\ InBudget
    /\ PointerFree
    /\ LET newConfig == [gridConfig EXCEPT ![key] = value]
       IN  gridConfig' =
             IF key = "baseCols" /\ ~isNaN(value) /\ value.v > 0
             THEN [newConfig EXCEPT !.baseRows = Num(RoundRatio(value.v))]
             ELSE newConfig
    /\ Quiet
    /\ Unmarked /\ UNCHANGED <<history, index, pushes, idleVars, uiVars, localVertices, localBoundary, dragState>>

\* a regenerate that starts the new grid without a mask
handleRegenerateGrid_MaskCleared ==
    /\ Rendered
    /\ InBudget
    /\ PointerFree
    /\ LET safeCols == SafeCount(gridConfig.baseCols)
           safeRows == SafeCount(gridConfig.baseRows)
           safeConfig == [gridConfig EXCEPT !.baseCols = Num(safeCols),
                                            !.baseRows = Num(safeRows)]
           rules == parseSubdivisionRules(safeConfig.ruleString, safeCols, safeRows)
           grid == generateGrid(Num(safeCols), Num(safeRows), rules)
       IN  /\ Commit([vertices |-> grid.vertices,
                      cells |-> grid.cells,
                      boundaryPoints |-> <<>>,
                      gridConfig |-> safeConfig])
           /\ lastOp' = IF safeConfig # gridConfig THEN "sanitize" ELSE "init"
    /\ Quiet
    /\ UNCHANGED <<idleVars, uiVars, dragState>>

\* the Regenerate Grid button
handleRegenerateGrid ==
    /\ Rendered
    /\ InBudget
    /\ PointerFree
    /\ LET safeCols == SafeCount(gridConfig.baseCols)
           safeRows == SafeCount(gridConfig.baseRows)
           safeConfig == [gridConfig EXCEPT !.baseCols = Num(safeCols),
                                            !.baseRows = Num(safeRows)]
           rules == parseSubdivisionRules(safeConfig.ruleString, safeCols, safeRows)
           grid == generateGrid(Num(safeCols), Num(safeRows), rules)
       IN  /\ Commit([vertices |-> grid.vertices,
                      cells |-> grid.cells,
                      boundaryPoints |-> currentState.boundaryPoints,
                      gridConfig |-> safeConfig])
           /\ lastOp' = IF safeConfig # gridConfig THEN "sanitize" ELSE "init"
    /\ Quiet
    /\ UNCHANGED <<idleVars, uiVars, dragState>>

handleResetPositions ==
    /\ Rendered
    /\ InBudget
    /\ PointerFree
    /\ LET newVertices ==
             [i \in DOMAIN currentState.vertices |->
                [currentState.vertices[i] EXCEPT
                    !.x = currentState.vertices[i].originalX,
                    !.y = currentState.vertices[i].originalY]]
       IN  Commit([currentState EXCEPT !.vertices = newVertices])
    /\ Quiet
    /\ Unmarked /\ UNCHANGED <<idleVars, uiVars, dragState>>

\* the mode buttons (disabled while pen drawing)
SetMode(m) ==
    /\ Rendered
    /\ InBudget
    /\ PointerFree
    /\ ~isPenDrawing
    /\ mode' = m
    /\ Quiet
    /\ Unmarked /\ UNCHANGED <<history, index, pushes, idleVars, activeColor, gridConfig, isPenDrawing, drawingPoints,
                   localVertices, localBoundary, dragState>>

\* the palette buttons
SetActiveColor(c) ==
    /\ Rendered
    /\ InBudget
    /\ PointerFree
    /\ activeColor' = c
    /\ Quiet
    /\ Unmarked /\ UNCHANGED <<history, index, pushes, idleVars, mode, gridConfig, isPenDrawing, drawingPoints,
                   localVertices, localBoundary, dragState>>

\* the Draw Boundary button (shown unless pen drawing, disabled in
\* DISPLACEMENT mode)
handleTogglePen ==
    /\ Rendered
    /\ InBudget
    /\ PointerFree
    /\ ~isPenDrawing
    /\ mode # "DISPLACEMENT"
    /\ isPenDrawing' = ~isPenDrawing
    /\ drawingPoints' = IF ~isPenDrawing THEN <<>> ELSE drawingPoints
    /\ Quiet
    /\ Unmarked /\ UNCHANGED <<history, index, pushes, idleVars, mode, activeColor, gridConfig, localVertices,
                   localBoundary, dragState>>

\* a Finish that commits whatever has been accumulated
handleFinishPen_Unchecked ==
    /\ Rendered
    /\ InBudget
    /\ PointerFree
    /\ isPenDrawing
    /\ isPenDrawing' = FALSE
    /\ Commit([currentState EXCEPT !.boundaryPoints = drawingPoints])
    /\ drawingPoints' = <<>>
    /\ Quiet
    /\ Unmarked /\ UNCHANGED <<idleVars, mode, activeColor, dragState>>

\* a Finish that is content with two points
handleFinishPen_AtLeastTwo ==
    /\ Rendered
    /\ InBudget
    /\ PointerFree
    /\ isPenDrawing
    /\ IF Len(drawingPoints) < 2
       THEN /\ alerted' = "Need at least 3 points for a shape."
            /\ reported' = NoReport
            /\ UNCHANGED <<docVars, isPenDrawing, drawingPoints>>
       ELSE /\ isPenDrawing' = FALSE
            /\ Commit([currentState EXCEPT !.boundaryPoints = drawingPoints])
            /\ drawingPoints' = <<>>
            /\ Quiet
    /\ Unmarked /\ UNCHANGED <<idleVars, mode, activeColor, dragState>>

\* the Finish button (shown while pen drawing)
handleFinishPen ==
    /\ Rendered
    /\ InBudget
    /\ PointerFree
    /\ isPenDrawing
    /\ IF Len(drawingPoints) < 3
       THEN /\ alerted' = "Need at least 3 points for a shape."
            /\ reported' = NoReport
            /\ UNCHANGED <<docVars, isPenDrawing, drawingPoints>>
       ELSE /\ isPenDrawing' = FALSE
            /\ Commit([currentState EXCEPT !.boundaryPoints = drawingPoints])
            /\ drawingPoints' = <<>>
            /\ Quiet
    /\ Unmarked /\ UNCHANGED <<idleVars, mode, activeColor, dragState>>

\* a Cancel that commits the accumulated points before it leaves pen drawing
onCancelPen_Committing ==
    /\ Rendered
    /\ InBudget
    /\ PointerFree
    /\ isPenDrawing
    /\ isPenDrawing' = FALSE
    /\ Commit([currentState EXCEPT !.boundaryPoints = drawingPoints])
    /\ drawingPoints' = <<>>
    /\ Quiet
    /\ lastOp' = "cancel"
    /\ UNCHANGED <<idleVars, mode, activeColor, dragState>>

\* the Cancel button (shown while pen drawing)
onCancelPen ==
    /\ Rendered
    /\ InBudget
    /\ PointerFree
    /\ isPenDrawing
    /\ isPenDrawing' = FALSE
    /\ drawingPoints' = <<>>
    /\ Quiet
    /\ lastOp' = "cancel"
    /\ UNCHANGED <<history, index, pushes, idleVars, mode, activeColor, gridConfig,
                   localVertices, localBoundary, dragState>>

\* the Clear Mask button (shown unless pen drawing, when hasMask)
handleClearMask ==
    /\ Rendered
    /\ InBudget
    /\ PointerFree
    /\ ~isPenDrawing
    /\ Len(currentState.boundaryPoints) > 0
    /\ Commit([currentState EXCEPT !.boundaryPoints = <<>>])
    /\ Quiet
    /\ Unmarked /\ UNCHANGED <<idleVars, uiVars, dragState>>

\* --- canvas

\* the `boundaryPoints` prop of MeshCanvas
BoundaryProp == IF isPenDrawing THEN drawingPoints ELSE localBoundary

\* (clientX - rect.left) * scaleX, with scaleX = SVG_WIDTH / rect.width
ScaleX(d, rect) == (d * SVG_WIDTH) \div rect.width
ScaleY(d, rect) == (d * SVG_HEIGHT) \div rect.height

\* a position left as computed, not clamped
ClampX_Unclamped(x) == x

\* Math.max(0, Math.min(SVG_WIDTH, x)) and its SVG_HEIGHT twin
ClampX(x) == Max(0, Min(SVG_WIDTH, x))
ClampY(y) == Max(0, Min(SVG_HEIGHT, y))

getSvgPoint(clientX, clientY, rect) ==
    [x |-> ClampX(ScaleX(clientX - rect.left, rect)),
     y |-> ClampY(ScaleY(clientY - rect.top, rect))]

\* handleSvgClick, then App.handleCanvasClick
handleSvgClick(client, zoom10) ==
    /\ Rendered
    /\ InBudget
    /\ Len(drawingPoints) < MaxPenPoints
    /\ IF dragState # NoDrag
       THEN UNCHANGED drawingPoints
       ELSE LET point == getSvgPoint(client.x, client.y, Rect(zoom10))
            IN  drawingPoints' =
                  IF isPenDrawing THEN Append(drawingPoints, point) ELSE drawingPoints
    /\ Quiet
    /\ Unmarked /\ UNCHANGED <<history, index, pushes, idleVars, mode, activeColor, gridConfig, isPenDrawing,
                   localVertices, localBoundary, dragState>>

\* a toggle that clears the fill flag and leaves the colour set
ToggledCell_ColorKept(cell, color) ==
    IF cell.isFilled /\ cell.color = color
    THEN [cell EXCEPT !.isFilled = FALSE]
    ELSE [cell EXCEPT !.isFilled = TRUE, !.color = color]

\* a click that fills the cell whatever it held
ToggledCell_AlwaysFilled(cell, color) ==
    [cell EXCEPT !.isFilled = TRUE, !.color = color]

\* the cell handleCellClick stores for a clicked cell: unfilled if it was
\* filled with the active colour, filled with the active colour otherwise
ToggledCell(cell, color) ==
    IF cell.isFilled /\ cell.color = color
    THEN [cell EXCEPT !.isFilled = FALSE, !.color = "null"]
    ELSE [cell EXCEPT !.isFilled = TRUE, !.color = color]

\* the polygon's onClick (pointer events off while pen drawing), then
\* App.handleCellClick
handleCellClick(id) ==
    /\ Rendered
    /\ PointerFree
    /\ mode = "UV"
    /\ ~isPenDrawing
    /\ LET cells == currentState.cells
           found == {i \in DOMAIN cells : cells[i].id = id}
       IN  IF found = {}
           THEN InBudget /\ Quiet /\ UNCHANGED docVars
           ELSE
             LET cellIndex == CHOOSE i \in found : \A k \in found : i <= k
                 cell == cells[cellIndex]
                 outside ==
                   /\ Len(currentState.boundaryPoints) >= 3
                   /\ ~isPointInPolygon(getCellCenter(cell, localVertices),
                                        currentState.boundaryPoints)
                 painted == ToggledCell(cell, activeColor)
             IN  IF outside
                 THEN /\ alerted' = "Cannot paint outside the mask boundary."
                      /\ reported' = NoReport
                      /\ UNCHANGED docVars
                 ELSE /\ InBudget
                      /\ Commit([currentState EXCEPT
                                   !.vertices = localVertices,
                                   !.boundaryPoints = localBoundary,
                                   !.cells = [cells EXCEPT ![cellIndex] = painted]])
                      /\ Quiet
    /\ Unmarked /\ UNCHANGED <<idleVars, uiVars, dragState>>

\* handlePointerDown on a vertex handle (rendered unless pen drawing)
PointerDownVertex(i, client) ==
    /\ Rendered
    /\ InBudget
    /\ PointerFree
    /\ ~isPenDrawing
    /\ i \in DOMAIN localVertices
    /\ dragState' =
         [type |-> "vertex", id |-> localVertices[i].id,
          startX |-> client.x, startY |-> client.y,
          initialItemX |-> localVertices[i].x,
          initialItemY |-> localVertices[i].y,
          constraint |-> "null"]
    /\ Quiet
    /\ Unmarked /\ UNCHANGED <<history, index, pushes, idleVars, uiVars, gridConfig, localVertices, localBoundary>>

\* handlePointerDown on a boundary handle (rendered in UV mode unless pen
\* drawing); the handle's id is its 0-based position
PointerDownBoundary(i, client) ==
    /\ Rendered
    /\ InBudget
    /\ PointerFree
    /\ ~isPenDrawing
    /\ mode = "UV"
    /\ i + 1 \in DOMAIN BoundaryProp
    /\ dragState' =
         [type |-> "boundary", id |-> i,
          startX |-> client.x, startY |-> client.y,
          initialItemX |-> BoundaryProp[i + 1].x,
          initialItemY |-> BoundaryProp[i + 1].y,
          constraint |-> "null"]
    /\ Quiet
    /\ Unmarked /\ UNCHANGED <<history, index, pushes, idleVars, uiVars, gridConfig, localVertices, localBoundary>>

\* a move that takes the vertex's rest position along
MovedVertices_RestToo(verts, id, x, y) ==
    [i \in DOMAIN verts |->
        IF verts[i].id = id
        THEN [verts[i] EXCEPT !.x = x, !.y = y, !.originalX = x, !.originalY = y]
        ELSE verts[i]]

\* localVertices.map(v => v.id === id ? { ...v, x, y } : v)
MovedVertices(verts, id, x, y) ==
    [i \in DOMAIN verts |->
        IF verts[i].id = id THEN [verts[i] EXCEPT !.x = x, !.y = y] ELSE verts[i]]

\* App.onVertexDrag (MeshCanvas's onVertexMove)
onVertexDrag(id, x, y, isFinished) ==
    LET newVerts == MovedVertices(localVertices, id, x, y)
    IN  /\ reported' = Report("vertex", id, x, y, isFinished)
        /\ IF isFinished
           THEN Commit([currentState EXCEPT !.vertices = newVerts,
                                            !.boundaryPoints = localBoundary])
           ELSE /\ localVertices' = newVerts
                /\ UNCHANGED <<history, index, pushes, localBoundary, gridConfig>>

\* App.onBoundaryDrag (MeshCanvas's onBoundaryMove)
onBoundaryDrag(i, x, y, isFinished) ==
    /\ reported' = Report("boundary", i, x, y, isFinished)
    /\ IF i + 1 \in DOMAIN localBoundary
       THEN LET newBoundary == [localBoundary EXCEPT ![i + 1] = [x |-> x, y |-> y]]
            IN  IF isFinished
                THEN Commit([currentState EXCEPT !.vertices = localVertices,
                                                 !.boundaryPoints = newBoundary])
                ELSE /\ localBoundary' = newBoundary
                     /\ UNCHANGED <<history, index, pushes, localVertices, gridConfig>>
       ELSE UNCHANGED docVars

\* the constraint handlePointerMove works with, re-decided on every move
NextConstraint_Redecide(drag, dx, dy, altKey) ==
    LET absDx == IF dx < 0 THEN -dx ELSE dx
        absDy == IF dy < 0 THEN -dy ELSE dy
    IN  IF altKey /\ (absDx > 5 \/ absDy > 5)
        THEN (IF absDx > absDy THEN "x" ELSE "y")
        ELSE drag.constraint

\* the constraint handlePointerMove works with
NextConstraint(drag, dx, dy, altKey) ==
    LET absDx == IF dx < 0 THEN -dx ELSE dx
        absDy == IF dy < 0 THEN -dy ELSE dy
    IN  IF altKey /\ drag.constraint = "null" /\ (absDx > 5 \/ absDy > 5)
        THEN (IF absDx > absDy THEN "x" ELSE "y")
        ELSE drag.constraint

\* the position handlePointerMove reports
MovedPosition(drag, constraint, dx, dy, rect) ==
    LET svgDx == IF constraint = "y" THEN 0 ELSE ScaleX(dx, rect)
        svgDy == IF constraint = "x" THEN 0 ELSE ScaleY(dy, rect)
    IN  [x |-> ClampX(drag.initialItemX + svgDx),
         y |-> ClampY(drag.initialItemY + svgDy)]

\* a move that reports its update as final
MoveIsFinished_Final == TRUE

\* the isFinished argument handlePointerMove passes to its callbacks
MoveIsFinished == FALSE

\* handlePointerMove, then App.onVertexDrag / App.onBoundaryDrag
handlePointerMove(client, altKey, zoom10) ==
    /\ Rendered
    /\ InBudget
    /\ IF dragState = NoDrag
       THEN /\ Quiet
            /\ UNCHANGED <<docVars, dragState>>
       ELSE
         LET dx == client.x - dragState.startX
             dy == client.y - dragState.startY
             constraint == NextConstraint(dragState, dx, dy, altKey)
             new == MovedPosition(dragState, constraint, dx, dy, Rect(zoom10))
         IN  /\ dragState' = [dragState EXCEPT !.constraint = constraint]
             /\ alerted' = ""
             /\ IF dragState.type = "vertex"
                THEN onVertexDrag(dragState.id, new.x, new.y, MoveIsFinished)
                ELSE onBoundaryDrag(dragState.id, new.x, new.y, MoveIsFinished)
    /\ Unmarked /\ UNCHANGED <<idleVars, uiVars>>

\* handlePointerUp (onPointerUp and onPointerLeave of the svg), then
\* App.onVertexDrag / App.onBoundaryDrag with isFinished = true
handlePointerUp ==
    /\ Rendered
    /\ InBudget
    /\ IF dragState = NoDrag
       THEN /\ Quiet
            /\ UNCHANGED <<docVars, dragState>>
       ELSE
         /\ dragState' = NoDrag
         /\ alerted' = ""
         /\ IF dragState.type = "vertex"
            THEN
              LET found == {i \in DOMAIN localVertices :
                              localVertices[i].id = dragState.id}
              IN  IF found = {}
                  THEN reported' = NoReport /\ UNCHANGED docVars
                  ELSE
                    LET v == localVertices[CHOOSE i \in found :
                                             \A k \in found : i <= k]
                    IN  onVertexDrag(dragState.id, v.x, v.y, TRUE)
            ELSE
              IF dragState.id + 1 \notin DOMAIN BoundaryProp
              THEN reported' = NoReport /\ UNCHANGED docVars
              ELSE
                LET p == BoundaryProp[dragState.id + 1]
                IN  onBoundaryDrag(dragState.id, p.x, p.y, TRUE)
    /\ Unmarked /\ UNCHANGED <<idleVars, uiVars>>

PointerUp == handlePointerUp
PointerLeave == handlePointerUp

Next ==
    \/ Undo
    \/ Redo
    \/ \E e \in ConfigEdits : ConfigChange(e[1], e[2])
    \/ handleRegenerateGrid
    \/ handleResetPositions
    \/ \E m \in Modes : SetMode(m)
    \/ \E c \in Colors : SetActiveColor(c)
    \/ handleTogglePen
    \/ handleFinishPen
    \/ onCancelPen
    \/ handleClearMask
    \/ \E z \in Zooms :
          handleSvgClick(PenPath[(Len(drawingPoints) % Len(PenPath)) + 1], z)
    \/ \E id \in ClickCellIds : handleCellClick(id)
    \/ \E id \in DragVertexIds, c \in DownPoints : PointerDownVertex(id + 1, c)
    \/ \E i \in DragBoundaryIds, c \in DownPoints : PointerDownBoundary(i, c)
    \/ \E c \in MovePoints, altKey \in BOOLEAN, z \in Zooms : handlePointerMove(c, altKey, z)
    \/ PointerUp
    \/ PointerLeave

Spec == Init /\ [][Next]_vars

\* ------------------------------------------------ the History Store alone

\* The History Store on its own, over opaque snapshots [snap |-> n]:
\* snapshot 0 is the initial state, snapshot n the one the n-th push appends.
Snap(n) == [snap |-> n]

InitHistory ==
    /\ history = <<Snap(0)>>
    /\ index = 0
    /\ pushes = 0
    /\ undos = 0
    /\ lastOp = "init"
    /\ InitEditorVars
    /\ callArgs = NoCall
    /\ callResult = NoCall

HPush ==
    /\ pushes < MaxPushes
    /\ history' = PushedHistory(history, index, Snap(pushes + 1))
    /\ index' = PushedIndex(index)
    /\ pushes' = pushes + 1
    /\ lastOp' = "push"
    /\ UNCHANGED <<undos, editorVars, callVars>>

HUndo ==
    /\ undos < MaxUndos
    /\ index' = UndoIndex(index)
    /\ undos' = undos + 1
    /\ lastOp' = "undo"
    /\ UNCHANGED <<history, pushes, editorVars, callVars>>

HRedo ==
    /\ index' = RedoIndex(history, index)
    /\ lastOp' = "redo"
    /\ UNCHANGED <<history, pushes, undos, editorVars, callVars>>

NextHistory == HPush \/ HUndo \/ HRedo

SpecHistory == InitHistory /\ [][NextHistory]_vars

\* =====================================================================
\* Properties of the History Store (checked under SpecHistory)
\* =====================================================================

\* ------------------------------------------ Geometry Engine, called directly

\* The arguments generateGrid is called with: counts that are missing (NaN),
\* negative, zero and positive, and rule maps with no entry, with entries in
\* and out of range and with a zero entry.  The positive counts and the
\* multipliers divide the drawable spans, so every width is a whole number.
GridCols == {NaN, Num(-2), Num(0), Num(1), Num(2), Num(3)}
GridRows == {NaN, Num(-1), Num(0), Num(1), Num(2)}
ColMaps ==
    {EmptyMap, (0 :> 2), (1 :> 3), (0 :> 2 @@ 2 :> 3), (0 :> 3 @@ 1 :> 2 @@ 7 :> 2),
     (1 :> 0)}
RowMaps == {EmptyMap, (0 :> 2), (1 :> 2), (0 :> 2 @@ 1 :> 5), (0 :> 0)}
GridCalls ==
    [fn : {"generateGrid"}, number : {"whole"}, baseCols : GridCols,
     baseRows : GridRows, rules : [cols : ColMaps, rows : RowMaps]]

\* generateGrid called on doubles, as it runs: with the start-up grid (10 by
\* 21, rules C1:4 and R3:2) and with other counts and rules whose widths are
\* no whole numbers.
SpanCols == {Num(1), Num(2), Num(3), Num(6), Num(7), Num(10), Num(11)}
SpanRows == {Num(1), Num(2), Num(6), Num(7), Num(21)}
SpanColMaps == {EmptyMap, (1 :> 4), (0 :> 3 @@ 1 :> 6), (0 :> 7)}
SpanRowMaps == {EmptyMap, (3 :> 2), (0 :> 6), (0 :> 3 @@ 1 :> 7)}
SpanCalls ==
    [fn : {"generateGrid"}, number : {"double"}, baseCols : SpanCols,
     baseRows : SpanRows, rules : [cols : SpanColMaps, rows : SpanRowMaps]]

\* the module has been loaded: INITIAL_STATE exists and the editor shows it
Loaded ==
    /\ history = <<INITIAL_STATE>>
    /\ index = 0
    /\ pushes = 0
    /\ undos = 0
    /\ lastOp = "init"
    /\ InitEditorVars

\* a call of generateGrid is about to be made, on whole numbers or on doubles
InitGrid ==
    /\ Loaded
    /\ callArgs \in GridCalls \cup SpanCalls
    /\ callResult = NoCall

\* generateGrid(baseCols, baseRows, rules) returns
CallGenerateGrid ==
    /\ callArgs.fn = "generateGrid"
    /\ callResult = NoCall
    /\ callResult' = generateGridIn(callArgs.number, callArgs.baseCols,
                                    callArgs.baseRows, callArgs.rules)
    /\ UNCHANGED <<histVars, editorVars, callArgs>>

SpecGrid == InitGrid /\ [][CallGenerateGrid]_vars

\* a call of generateGrid on doubles is about to be made
InitSpan ==
    /\ Loaded
    /\ callArgs \in SpanCalls
    /\ callResult = NoCall

SpecSpan == InitSpan /\ [][CallGenerateGrid]_vars

\* The rule strings parseSubdivisionRules is called with are lists of up to
\* MaxTokens tokens joined by commas.  Each token is named by its text; beside
\* the text stands what the rule grammar "C or R, index, ':', multiplier"
\* makes of it.
MaxTokens == 3
TokenNames ==
    {"C1:4", "C1:2", "C01:04", "R3:2", " r 3 : 5 ", "R13:3", "X9:9", "C99:4",
     "C1:0", "C1:4 2", "C-1:4", ""}
TokenText(name) ==
    CASE name = "C1:4"      -> <<"C", "1", ":", "4">>
      [] name = "C1:2"      -> <<"C", "1", ":", "2">>
      [] name = "C01:04"    -> <<"C", "0", "1", ":", "0", "4">>
      [] name = "R3:2"      -> <<"R", "3", ":", "2">>
      [] name = " r 3 : 5 " -> <<" ", "r", " ", "3", " ", ":", " ", "5", " ">>
      [] name = "R13:3"     -> <<"R", "1", "3", ":", "3">>
      [] name = "X9:9"      -> <<"X", "9", ":", "9">>
      [] name = "C99:4"     -> <<"C", "9", "9", ":", "4">>
      [] name = "C1:0"      -> <<"C", "1", ":", "0">>
      [] name = "C1:4 2"    -> <<"C", "1", ":", "4", " ", "2">>
      [] name = "C-1:4"     -> <<"C", "-", "1", ":", "4">>
      [] name = ""          -> <<>>
Rule(type, idx, mult) == [ok |-> TRUE, type |-> type, index |-> idx, mult |-> mult]
TokenRule(name) ==
    CASE name = "C1:4"      -> Rule("C", 1, 4)
      [] name = "C1:2"      -> Rule("C", 1, 2)
      [] name = "C01:04"    -> Rule("C", 1, 4)
      [] name = "R3:2"      -> Rule("R", 3, 2)
      [] name = " r 3 : 5 " -> Rule("R", 3, 5)
      [] name = "R13:3"     -> Rule("R", 13, 3)
      [] name = "C99:4"     -> Rule("C", 99, 4)
      [] name = "C1:0"      -> Rule("C", 1, 0)
      [] OTHER              -> NoMatch

\* Array.prototype.join(','): the string a token list is written as
RECURSIVE JoinTokens(_)
JoinTokens(names) ==
    IF names = <<>> THEN <<>>
    ELSE IF Len(names) = 1 THEN TokenText(names[1])
    ELSE TokenText(names[1]) \o <<",">> \o JoinTokens(Tail(names))

TokenLists == UNION { [1..n -> TokenNames] : n \in 0..MaxTokens }
RuleCounts == { <<10, 14>>, <<1, 3>> }
RuleCalls ==
    { [fn |-> "parseSubdivisionRules", tokens |-> names,
       rulesString |-> JoinTokens(names), baseCols |-> wh[1], baseRows |-> wh[2]] :
      names \in TokenLists, wh \in RuleCounts }

InitRules ==
    /\ Loaded
    /\ callArgs \in RuleCalls
    /\ callResult = NoCall

\* parseSubdivisionRules(rulesString, baseCols, baseRows) returns
CallParseSubdivisionRules ==
    /\ callArgs.fn = "parseSubdivisionRules"
    /\ callResult = NoCall
    /\ callResult' = parseSubdivisionRules(callArgs.rulesString,
                                           callArgs.baseCols, callArgs.baseRows)
    /\ UNCHANGED <<histVars, editorVars, callArgs>>

SpecRules == InitRules /\ [][CallParseSubdivisionRules]_vars

\* The Grid Settings panel with any counts typed in: the number inputs hand
\* handleConfigChange parseInt of their text, NaN for an empty box.  Beside
\* it generateGrid is called directly with counts of the same kinds.
CountEntries ==
    { <<"baseCols", NaN>>, <<"baseCols", Num(0)>>, <<"baseCols", Num(-3)>>,
      <<"baseCols", Num(1)>>, <<"baseRows", NaN>>, <<"baseRows", Num(0)>>,
      <<"baseRows", Num(-1)>>, <<"baseRows", Num(1)>>, <<"baseRows", Num(2)>> }
CountCalls ==
    [fn : {"generateGrid"}, number : {"whole"}, baseCols : GridCols,
     baseRows : GridRows, rules : {[cols |-> (0 :> 2), rows |-> (0 :> 2 @@ 1 :> 5)]}]

InitCounts ==
    /\ Loaded
    /\ callArgs \in CountCalls
    /\ callResult = NoCall

NextCounts ==
    \/ CallGenerateGrid
    \/ \E e \in CountEntries : ConfigChange(e[1], e[2])
    \/ handleRegenerateGrid
    \/ Undo
    \/ Redo

SpecCounts == InitCounts /\ [][NextCounts]_vars

\* isPointInPolygon is called with polygons of fewer than three points and
\* with axis-aligned rectangles, their corners in order from any corner in
\* either direction; the points lie inside, outside and on the outline, at
\* whole coordinates and at quarters (a cell centre is a sum over d = 4).
Square == <<Pt(0, 0), Pt(10, 0), Pt(10, 10), Pt(0, 10)>>
PolygonCalls ==
    LET RectCorners(x0, y0, x1, y1) == <<Pt(x0, y0), Pt(x1, y0), Pt(x1, y1), Pt(x0, y1)>>
        Rotated(vs, k) == [i \in 1..Len(vs) |-> vs[((i + k - 1) % Len(vs)) + 1]]
        Reversed(vs) == [i \in 1..Len(vs) |-> vs[Len(vs) + 1 - i]]
        corners == {Square, RectCorners(2, -3, 7, 4), RectCorners(-5, 1, -1, 3)}
        rectangles ==
          UNION { {Rotated(vs, k), Rotated(Reversed(vs), k)} : vs \in corners, k \in 0..3 }
        shortPolygons ==
          {<<>>, <<Pt(0, 0)>>, <<Pt(0, 0), Pt(10, 10)>>, <<Pt(0, 10), Pt(10, 0)>>,
           <<Pt(0, 0), Pt(10, 0)>>}
        points ==
          {Pt(x, y) : x \in -6..15, y \in -6..12}
            \cup {[x |-> x, y |-> y, d |-> 4] :
                    x \in {-1, 1, 20, 39, 41}, y \in {-1, 3, 20, 39, 43}}
    IN  [fn : {"isPointInPolygon"}, point : points, vs : rectangles \cup shortPolygons]

InitPolygon ==
    /\ Loaded
    /\ callArgs \in PolygonCalls
    /\ callResult = NoCall

\* isPointInPolygon(point, vs) returns
CallIsPointInPolygon ==
    /\ callArgs.fn = "isPointInPolygon"
    /\ callResult = NoCall
    /\ callResult' = [returned |-> isPointInPolygon(callArgs.point, callArgs.vs)]
    /\ UNCHANGED <<histVars, editorVars, callArgs>>

SpecPolygon == InitPolygon /\ [][CallIsPointInPolygon]_vars

\* getDisplacementColor is called for the first cell of a grid (the start-up
\* grid, the one snapshot of the history after loading) with each of its
\* corners at rest or moved off its rest position by a whole distance, and
\* with scales on the Sensitivity slider (0.01 to 0.3 in steps of 0.01, read
\* by parseFloat), above it, zero and below zero.
ColorCalls(grid) ==
    LET offsets == {<<0, 0>>, <<0, 1>>, <<3, 4>>, <<30, -40>>}
        cell == grid.cells[1]
        Moved(by) ==
          [i \in DOMAIN grid.vertices |->
             LET v == grid.vertices[i]
                 corners == {k \in 1..4 : cell.v_indices[k] = v.id}
             IN  IF corners = {} THEN v
                 ELSE LET k == CHOOSE k \in corners : TRUE
                      IN  [v EXCEPT !.x = v.originalX + by[k][1],
                                    !.y = v.originalY + by[k][2]]]
        Scale(neg, hundredths) ==
          [neg |-> neg, hundredths |-> hundredths,
           mag |-> DoubleQuot(DoubleOf(hundredths), 100)]
        scales == {Scale(FALSE, h) : h \in {0, 1, 10, 29, 30, 100}}
                    \cup {Scale(TRUE, h) : h \in {10, 100}}
    IN  { [fn |-> "getDisplacementColor", cell |-> cell, vertices |-> Moved(by),
           scale |-> sc] : by \in [1..4 -> offsets], sc \in scales }

InitColor ==
    /\ Loaded
    /\ callArgs \in ColorCalls(history[1])
    /\ callResult = NoCall

\* getDisplacementColor(cell, vertices, scale) returns; beside the string
\* returned stands the local `intensity` it was made from
CallGetDisplacementColor ==
    /\ callArgs.fn = "getDisplacementColor"
    /\ callResult = NoCall
    /\ callResult' =
         [returned |-> getDisplacementColor(callArgs.cell, callArgs.vertices, callArgs.scale),
          intensity |-> Intensity(callArgs.cell, callArgs.vertices, callArgs.scale)]
    /\ UNCHANGED <<histVars, editorVars, callArgs>>

SpecColor == InitColor /\ [][CallGetDisplacementColor]_vars

\* The Reset button is clicked until the history is nearly full; from then on
\* a vertex is dragged, positions are reset, and steps are undone (down to
\* the last of those first clicks) and redone.
InitReset ==
    /\ Loaded
    /\ callArgs = [fn |-> "handleResetPositions"]
    /\ callResult = NoCall

NextReset ==
    \/ handleResetPositions
    \/ index >= ResetsFirst /\ Undo
    \/ pushes >= ResetsFirst /\ Redo
    \/ /\ pushes >= ResetsFirst
       /\ \E id \in DragVertexIds, c \in DownPoints : PointerDownVertex(id + 1, c)
    \/ \E c \in MovePoints, altKey \in BOOLEAN, z \in Zooms : handlePointerMove(c, altKey, z)
    \/ PointerUp
    \/ PointerLeave

SpecReset == InitReset /\ [][NextReset]_vars

\* C1: after any sequence of push, undo and redo the snapshot sequence is
\* non-empty and 0 <= index <= length - 1, so the current snapshot is always
\* a stored one (also after a push onto a full history).
C1_IndexValid ==
    /\ Len(history) >= 1
    /\ 0 <= index
    /\ index <= Len(history) - 1
    /\ currentState # Undefined

\* C2: never more than 50 snapshots are retained; the retained snapshots are
\* in push order with the newest last after a push, and after n pushes in a
\* row from the start they are exactly the most recent min(n + 1, 50) ones.
C2_BoundedRetention ==
    /\ Len(history) <= HISTORY_CAP
    /\ \A i \in 1..(Len(history) - 1) : history[i].snap < history[i + 1].snap
    /\ lastOp = "push" => history[Len(history)] = Snap(pushes)
    /\ undos = 0 =>
          LET n == Min(pushes + 1, HISTORY_CAP)
          IN  history = [i \in 1..n |-> Snap(pushes - n + i)]

\* 52 pushes in a row: 50 retained, snapshots 0, 1 and 2 evicted.
C2_Witness ==
    /\ pushes = 52
    /\ undos = 0
    /\ Len(history) = 50
    /\ history[1] = Snap(3)
    /\ history[50] = Snap(52)

\* C3: a push performed right after an undo leaves the pushed snapshot last,
\* canRedo false, a following redo() without effect on the current snapshot,
\* and none of the snapshots that were after the index in the sequence.
C3_PushAfterUndoDiscardsFuture ==
    [][ (lastOp = "undo" /\ lastOp' = "push") =>
          /\ history'[Len(history')] = Snap(pushes')
          /\ ~(index' < Len(history') - 1)
          /\ StateAt(history', RedoIndex(history', index')) = StateAt(history', index')
          /\ \A k \in (index + 2)..Len(history) :
                \A j \in 1..Len(history') : history'[j] # history[k] ]_vars

\* C4: undo() moves the index one step toward the start when index > 0 and
\* leaves it at 0 otherwise, never touches the snapshot sequence, and canUndo
\* holds exactly when index > 0, that is exactly when undo() would move.
C4_UndoStep ==
    [][ undos' = undos + 1 =>
          /\ index' = (IF index > 0 THEN index - 1 ELSE 0)
          /\ history' = history
          /\ (canUndo <=> index > 0)
          /\ (canUndo <=> index' # index) ]_vars

\* an undo() at index 0 of a history that holds two snapshots
C4_Witness ==
    /\ lastOp = "undo"
    /\ undos = 2
    /\ index = 0
    /\ Len(history) = 2

\* C5: redo() moves the index one step toward the end when canRedo holds and
\* otherwise leaves the index and the current snapshot unchanged; it never
\* moves the index backward and never changes the snapshot sequence.
C5_RedoStep ==
    [][ lastOp' = "redo" =>
          /\ canRedo => index' = index + 1
          /\ ~canRedo => (index' = index /\ StateAt(history', index') = currentState)
          /\ index' >= index
          /\ history' = history ]_vars

\* =====================================================================
\* Properties of the drag controller and the editor (checked under Spec)
\* =====================================================================

\* a pointer-move event, whatever its inputs
AnyPointerMove ==
    \E c \in MovePoints, altKey \in BOOLEAN, z \in Zooms : handlePointerMove(c, altKey, z)

InBounds(p) == 0 <= p.x /\ p.x <= SVG_WIDTH /\ 0 <= p.y /\ p.y <= SVG_HEIGHT

\* C6: while a drag is in progress, a pointer-up and a pointer-leave have the
\* same effect: the controller returns to idle, one final update for the
\* dragged target is reported, and exactly one snapshot is pushed, which is
\* the current one and holds the target at its last working-copy position.
C6_ReleaseCommits ==
    [][ (dragState # NoDrag /\ (PointerUp \/ PointerLeave)) =>
          LET committed == StateAt(history', index')
              slot == dragState.id + 1
          IN  /\ PointerUp /\ PointerLeave
              /\ dragState' = NoDrag
              /\ reported'.isFinished
              /\ reported'.kind = dragState.type
              /\ reported'.id = dragState.id
              /\ pushes' = pushes + 1
              /\ Len(history') = index' + 1
              /\ IF dragState.type = "vertex"
                 THEN \E i \in DOMAIN localVertices :
                         /\ localVertices[i].id = dragState.id
                         /\ committed.vertices[i].x = localVertices[i].x
                         /\ committed.vertices[i].y = localVertices[i].y
                 ELSE /\ slot \in DOMAIN localBoundary
                      /\ committed.boundaryPoints[slot] = localBoundary[slot] ]_vars

\* C7: a pointer-move during a drag reports a non-final update and changes
\* the working copy only (the snapshot sequence, the index and the rest of
\* the editor state stay as they are); pointer-move, pointer-up and
\* pointer-leave while idle change neither the working copy nor the history.
\* (Each implication "event => effect" is written "effect \/ ~event".)
C7_MovesAreNotFinal ==
    [][ /\ \/ /\ UNCHANGED <<history, index, pushes, gridConfig, uiVars>>
              /\ dragState # NoDrag =>
                    /\ reported'.kind = dragState.type
                    /\ ~reported'.isFinished
                    /\ dragState' # NoDrag
                    /\ dragState.type = "vertex" => localBoundary' = localBoundary
                    /\ dragState.type = "boundary" => localVertices' = localVertices
           \/ ~AnyPointerMove
        /\ \/ UNCHANGED <<history, index, pushes, localVertices, localBoundary>>
           \/ dragState # NoDrag
           \/ ~(AnyPointerMove \/ PointerUp \/ PointerLeave) ]_vars

\* vertex 0 dragged from (50,50) to (110,160), not released: the working copy
\* has moved, the only snapshot has not
C7_Witness ==
    /\ dragState.type = "vertex"
    /\ reported = Report("vertex", 0, 110, 160, FALSE)
    /\ localVertices[1].x = 110 /\ localVertices[1].y = 160
    /\ pushes = 0 /\ Len(history) = 1 /\ index = 0
    /\ currentState.vertices[1].x = 50 /\ currentState.vertices[1].y = 50

\* C8: once a drag's constraint is "x" or "y" it keeps that value for as long
\* as the drag lasts, and every drag starts with no constraint.
C8_LockDecidedOnce ==
    [][ /\ (dragState.constraint # "null" /\ dragState' # NoDrag) =>
              dragState'.constraint = dragState.constraint
        /\ (dragState = NoDrag /\ dragState' # NoDrag) =>
              dragState'.constraint = "null" ]_vars

\* a second drag of vertex 0, which a first y-locked drag left at (50,160):
\* locked to y again, its last move 2400 to the left at the start height
C8_Witness ==
    /\ pushes = 1
    /\ dragState.type = "vertex"
    /\ dragState.initialItemX = 50 /\ dragState.initialItemY = 160
    /\ dragState.constraint = "y"
    /\ reported = Report("vertex", 0, 50, 160, FALSE)

\* C9: with the modifier held, the first move whose delta exceeds 5 in either
\* axis locks the drag to the axis of the larger magnitude; a move without
\* the modifier, or within 5 on both axes, takes no lock and both coordinates
\* follow the pointer; from the lock on every reported position, the final
\* one and the committed one included, keeps the other coordinate at the
\* target's initial value.
C9_AxisLock ==
    [][ /\ \A c \in MovePoints, altKey \in BOOLEAN, z \in Zooms :
              (dragState.constraint = "null" /\ dragState # NoDrag
                 /\ handlePointerMove(c, altKey, z)) =>
                 LET dx == c.x - dragState.startX
                     dy == c.y - dragState.startY
                     absDx == IF dx < 0 THEN -dx ELSE dx
                     absDy == IF dy < 0 THEN -dy ELSE dy
                 IN  IF altKey /\ (absDx > 5 \/ absDy > 5)
                     THEN dragState'.constraint = (IF absDx > absDy THEN "x" ELSE "y")
                     ELSE /\ dragState'.constraint = "null"
                          /\ reported'.x =
                               ClampX(dragState.initialItemX + ScaleX(dx, Rect(z)))
                          /\ reported'.y =
                               ClampY(dragState.initialItemY + ScaleY(dy, Rect(z)))
        /\ (AnyPointerMove /\ dragState'.constraint = "y") =>
              reported'.x = dragState'.initialItemX
        /\ (AnyPointerMove /\ dragState'.constraint = "x") =>
              reported'.y = dragState'.initialItemY
        /\ ((PointerUp \/ PointerLeave) /\ dragState.type = "vertex"
              /\ dragState.constraint # "null" /\ reported'.isFinished) =>
              LET v == StateAt(history', index').vertices[dragState.id + 1]
              IN  IF dragState.constraint = "y"
                  THEN reported'.x = dragState.initialItemX
                       /\ v.x = dragState.initialItemX
                  ELSE reported'.y = dragState.initialItemY
                       /\ v.y = dragState.initialItemY ]_vars

\* C10: every position a drag reports, every point of the drawing in
\* progress, every working-copy position and every vertex and boundary point
\* of every snapshot lies within [0, 1000] x [0, 2000].
C10_PositionsInBounds ==
    /\ reported.kind # "none" => InBounds(reported)
    /\ \A i \in DOMAIN drawingPoints : InBounds(drawingPoints[i])
    /\ \A i \in DOMAIN localVertices : InBounds(localVertices[i])
    /\ \A i \in DOMAIN localBoundary : InBounds(localBoundary[i])
    /\ \A k \in DOMAIN history :
          /\ \A i \in DOMAIN history[k].vertices : InBounds(history[k].vertices[i])
          /\ \A i \in DOMAIN history[k].boundaryPoints :
                InBounds(history[k].boundaryPoints[i])

\* a mask whose last point was clicked left of and below the canvas, then
\* vertex 0 dragged 2400 to the left and released: both held at the edge
C10_Witness ==
    /\ pushes = 2
    /\ Len(currentState.boundaryPoints) = 3
    /\ currentState.boundaryPoints[2] = [x |-> 1000, y |-> 100]
    /\ currentState.boundaryPoints[3] = [x |-> 0, y |-> 2000]
    /\ reported = Report("vertex", 0, 0, 50, TRUE)
    /\ currentState.vertices[1].x = 0

\* C11: Finish with fewer than 3 accumulated points is rejected and reported:
\* nothing is pushed, the history and the boundary stay as they are, pen
\* drawing stays active with its points; Finish with 3 or more points pushes
\* exactly one snapshot, the current one, whose boundary is the accumulated
\* points in click order, ends pen drawing and empties the buffer.
C11_FinishNeedsThreePoints ==
    [][ handleFinishPen =>
          IF Len(drawingPoints) < 3
          THEN /\ UNCHANGED <<history, index, pushes, localBoundary>>
               /\ isPenDrawing' /\ drawingPoints' = drawingPoints
               /\ alerted' # ""
          ELSE /\ pushes' = pushes + 1
               /\ index' = index + 1 /\ Len(history') = index' + 1
               /\ SubSeq(history', 1, index + 1) = SubSeq(history, 1, index + 1)
               /\ StateAt(history', index').boundaryPoints = drawingPoints
               /\ StateAt(history', index').vertices = currentState.vertices
               /\ StateAt(history', index').cells = currentState.cells
               /\ ~isPenDrawing' /\ drawingPoints' = <<>> ]_vars

\* Finish pressed with two points accumulated: rejected, the drawing goes on
C11_Witness ==
    /\ alerted = "Need at least 3 points for a shape."
    /\ isPenDrawing
    /\ Len(drawingPoints) = 2
    /\ pushes = 0 /\ Len(history) = 1

\* C12: a click on an existing cell whose centre, the mean of its four
\* corners' current positions, lies outside a mask of 3 or more points is
\* rejected and reported, and leaves the history (so every cell) unchanged;
\* any other click on an existing cell, in particular every click while the
\* snapshot has no mask, pushes exactly one snapshot, which differs from the
\* current one in that cell only.
C12_PaintOutsideMaskRejected ==
    [][ \A id \in ClickCellIds :
          (handleCellClick(id) /\ \E i \in DOMAIN currentState.cells :
                                      currentState.cells[i].id = id) =>
            LET cells == currentState.cells
                i == CHOOSE k \in DOMAIN cells : cells[k].id = id
                corner(k) == currentState.vertices[cells[i].v_indices[k] + 1]
                centre == [x |-> corner(1).x + corner(2).x + corner(3).x + corner(4).x,
                           y |-> corner(1).y + corner(2).y + corner(3).y + corner(4).y,
                           d |-> 4]
                mask == currentState.boundaryPoints
                outside == Len(mask) >= 3 /\ ~isPointInPolygon(centre, mask)
            IN  IF outside
                THEN /\ UNCHANGED <<history, index, pushes>>
                     /\ alerted' # ""
                ELSE /\ pushes' = pushes + 1
                     /\ Len(history') = index' + 1
                     /\ alerted' = ""
                     /\ \A k \in DOMAIN cells :
                           k # i => StateAt(history', index').cells[k] = cells[k] ]_vars

\* a mask is in place and a click on cell 0, whose centre (275, 525) is left
\* of the mask's left edge, has been rejected
C12_Witness ==
    /\ alerted = "Cannot paint outside the mask boundary."
    /\ Len(currentState.boundaryPoints) = 3
    /\ pushes = 1
    /\ \A i \in DOMAIN currentState.cells : ~currentState.cells[i].isFilled

\* a click on the canvas, whatever its inputs
AnyCanvasClick ==
    \E z \in Zooms, k \in DOMAIN PenPath : handleSvgClick(PenPath[k], z)

\* C13: Cancel empties the drawing buffer and ends pen drawing without
\* committing: it leaves the snapshot sequence, the index and the boundary as
\* they are, as do the events that make up a drawing (Draw Boundary and the
\* canvas clicks), so the History Store after Cancel is as it was when the
\* drawing started, however many points were added.
C13_CancelDiscards ==
    [][ /\ onCancelPen =>
              /\ ~isPenDrawing' /\ drawingPoints' = <<>>
              /\ UNCHANGED <<history, index, pushes, localBoundary, localVertices>>
        /\ \/ UNCHANGED <<history, index, pushes, localBoundary, localVertices>>
           \/ ~(handleTogglePen \/ AnyCanvasClick) ]_vars

\* a redraw of an existing mask was started and cancelled: the mask is intact
C13_Witness ==
    /\ lastOp = "cancel"
    /\ ~isPenDrawing /\ drawingPoints = <<>>
    /\ pushes = 1 /\ index = 1 /\ Len(history) = 2
    /\ Len(currentState.boundaryPoints) = 3
    /\ localBoundary = currentState.boundaryPoints

\* the grid a snapshot's configuration generates
GridOf(cfg) ==
    generateGrid(cfg.baseCols, cfg.baseRows,
                 parseSubdivisionRules(cfg.ruleString, SafeCount(cfg.baseCols),
                                       SafeCount(cfg.baseRows)))

\* the vertices have the rest positions their grid was generated with
RestAsGenerated(verts, cfg) ==
    LET generated == GridOf(cfg).vertices
    IN  /\ Len(verts) = Len(generated)
        /\ \A i \in DOMAIN verts :
              /\ verts[i].originalX = generated[i].originalX
              /\ verts[i].originalY = generated[i].originalY

\* C14: every vertex of every snapshot, and of the working copy, has the rest
\* position its grid was generated with; a push that is neither a regenerate
\* nor the release of a vertex drag nor a reset leaves every vertex position
\* as it is in the current snapshot, a release moves the dragged vertex only,
\* and a reset puts every vertex at its rest position.
C14_RestPositionsFixed ==
    /\ [](/\ \A k \in DOMAIN history :
               RestAsGenerated(history[k].vertices, history[k].gridConfig)
          /\ RestAsGenerated(localVertices, currentState.gridConfig))
    /\ [][ pushes' = pushes + 1 =>
             LET old == currentState.vertices
                 new == StateAt(history', index').vertices
             IN  \/ handleRegenerateGrid
                 \/ /\ handleResetPositions
                    /\ \A i \in DOMAIN new :
                          new[i].x = new[i].originalX /\ new[i].y = new[i].originalY
                 \/ /\ dragState.type = "vertex" /\ (PointerUp \/ PointerLeave)
                    /\ \A i \in DOMAIN new : new[i].id # dragState.id => new[i] = old[i]
                 \/ new = old ]_vars

\* vertex 0 was dragged to the left edge and released, then Reset Positions
\* put it back: its rest position is (50,50) in both snapshots
C14_Witness ==
    /\ pushes = 2 /\ index = 2 /\ Len(history) = 3
    /\ history[2].vertices[1].x = 0 /\ history[2].vertices[1].originalX = 50
    /\ history[3].vertices[1].x = 50 /\ history[3].vertices[1].originalX = 50
    /\ history[3].vertices[1].y = 50 /\ history[3].vertices[1].originalY = 50

\* a cell's four references are valid ids of the vertex list and, by the
\* vertices' rest positions, are its top-left, top-right, bottom-right and
\* bottom-left corners in that order
CornersInOrder(cell, verts) ==
    /\ Len(cell.v_indices) = 4
    /\ \A k \in 1..4 : cell.v_indices[k] \in 0..(Len(verts) - 1)
    /\ LET tl == verts[cell.v_indices[1] + 1]
           tr == verts[cell.v_indices[2] + 1]
           br == verts[cell.v_indices[3] + 1]
           bl == verts[cell.v_indices[4] + 1]
       IN  /\ tl.originalY = tr.originalY /\ tl.originalX < tr.originalX
           /\ bl.originalY = br.originalY /\ bl.originalX < br.originalX
           /\ tl.originalX = bl.originalX /\ tl.originalY < bl.originalY
           /\ tr.originalX = br.originalX /\ tr.originalY < br.originalY

\* C15: in every snapshot of the history each cell references exactly four
\* vertex ids, all valid indices into that snapshot's vertex list, in the
\* order top-left, top-right, bottom-right, bottom-left.
C15_CellsReferenceOwnVertices ==
    \A k \in DOMAIN history :
       \A i \in DOMAIN history[k].cells :
          CornersInOrder(history[k].cells[i], history[k].vertices)

\* the 6-cell initial grid, a regenerated 2-cell grid and a paint on it
C15_Witness ==
    /\ Len(history) = 3 /\ index = 2
    /\ Len(history[1].cells) = 6 /\ Len(history[1].vertices) = 12
    /\ Len(history[2].cells) = 2 /\ Len(history[2].vertices) = 6
    /\ Len(history[3].cells) = 2 /\ history[3].cells[1].isFilled

\* the vertex at list position i (0-based) carries id i
IdIsPosition(vertices) == \A i \in DOMAIN vertices : vertices[i].id = i - 1

\* C16: vertex ids are unique within a grid and equal the row-major
\* generation index: in the grid generateGrid returned at start-up and in the
\* vertex list of every snapshot kept since (and in the working copy the
\* canvas looks ids up in), the vertex at list position i (0-based) has id i.
C16_IdEqualsPosition ==
    /\ IdIsPosition(initialGrid.vertices)
    /\ \A k \in DOMAIN history : IdIsPosition(history[k].vertices)
    /\ IdIsPosition(localVertices)
\* a regenerated grid, then a committed drag of one of its vertices
C16_Witness ==
    /\ Len(history) = 3 /\ index = 2
    /\ Len(history[2].vertices) = 6
    /\ history[2].vertices[1].x = history[2].vertices[1].originalX
    /\ history[3].vertices[1].x # history[3].vertices[1].originalX
    /\ localVertices = history[3].vertices

\* sum of the multipliers of the logical divisions 0 .. n-1 (1 where no rule)
RECURSIVE SumOfMultipliers(_, _)
SumOfMultipliers(map, n) ==
    IF n = 0 THEN 0
    ELSE SumOfMultipliers(map, n - 1) + (IF (n - 1) \in DOMAIN map THEN map[n - 1] ELSE 1)
PositiveCount(n) == ~isNaN(n) /\ n.v >= 1
PositiveMap(map) == \A k \in DOMAIN map : map[k] >= 1

\* C17: for positive integer baseCols and baseRows and rule maps with positive
\* multipliers, generateGrid returns totalXPoints * totalYPoints vertices and
\* (totalXPoints - 1) * (totalYPoints - 1) cells, where totalXPoints is the sum
\* of the column multipliers (1 where no rule) plus 1 and totalYPoints
\* likewise for rows; every cell is unfilled with null colour and every
\* vertex's current position is its rest position.
C17_GridCounts ==
    (/\ callResult # NoCall
     /\ PositiveCount(callArgs.baseCols) /\ PositiveCount(callArgs.baseRows)
     /\ PositiveMap(callArgs.rules.cols) /\ PositiveMap(callArgs.rules.rows))
    => LET totalXPoints == SumOfMultipliers(callArgs.rules.cols, callArgs.baseCols.v) + 1
           totalYPoints == SumOfMultipliers(callArgs.rules.rows, callArgs.baseRows.v) + 1
       IN  /\ Len(callResult.vertices) = totalXPoints * totalYPoints
           /\ Len(callResult.cells) = (totalXPoints - 1) * (totalYPoints - 1)
           /\ \A i \in DOMAIN callResult.cells :
                 /\ ~callResult.cells[i].isFilled
                 /\ callResult.cells[i].color = "null"
           /\ \A i \in DOMAIN callResult.vertices :
                 /\ callResult.vertices[i].x = callResult.vertices[i].originalX
                 /\ callResult.vertices[i].y = callResult.vertices[i].originalY
\* three columns split 2, 1 and 3 ways and two rows split 2 and 5 ways:
\* 7 by 8 points, 6 by 7 cells
C17_Witness ==
    /\ callResult # NoCall
    /\ callArgs.baseCols = Num(3) /\ callArgs.baseRows = Num(2)
    /\ callArgs.rules = [cols |-> (0 :> 2 @@ 2 :> 3), rows |-> (0 :> 2 @@ 1 :> 5)]
    /\ Len(callResult.vertices) = 56
    /\ Len(callResult.cells) = 42

\* the positions of a token list whose token is a well-formed rule of the
\* given type for index i, with a positive multiplier and i within the count
Writers(names, type, i, count) ==
    { k \in DOMAIN names :
        LET rule == TokenRule(names[k])
        IN  /\ rule.ok /\ rule.type = type /\ rule.index = i
            /\ rule.mult > 0 /\ 0 <= i /\ i < count }
LastOf(positions) == CHOOSE k \in positions : \A j \in positions : j <= k
\* the map the rules of one type amount to: the last writer of each index
LastWriters(names, type, count) ==
    LET indices == { TokenRule(names[k]).index : k \in DOMAIN names }
        written == { i \in indices : Writers(names, type, i, count) # {} }
    IN  [i \in written |-> TokenRule(names[LastOf(Writers(names, type, i, count))]).mult]

\* C19: parsing never fails and drops invalid tokens one by one: for any
\* comma-separated token list, the column map holds index i with multiplier m
\* exactly when the last well-formed C-token for i with m > 0 and
\* 0 <= i < baseCols carries m, likewise the row map with baseRows; malformed
\* tokens, non-positive multipliers and out-of-range indices add nothing and
\* empty input gives two empty maps ("C1:4,R3:2" at 10 by 14 gives cols
\* {1:4} and rows {3:2}; "X9:9" and "C99:4" give empty maps).
C19_ParseLastWriterWins ==
    callResult # NoCall =>
      /\ callResult.cols = LastWriters(callArgs.tokens, "C", callArgs.baseCols)
      /\ callResult.rows = LastWriters(callArgs.tokens, "R", callArgs.baseRows)
      /\ callArgs.rulesString = <<>> => callResult = EmptyRules
      /\ (callArgs.tokens = <<"C1:4", "R3:2">> /\ callArgs.baseCols = 10
                                               /\ callArgs.baseRows = 14)
            => callResult = [cols |-> (1 :> 4), rows |-> (3 :> 2)]
      /\ callArgs.tokens \in {<<"X9:9">>, <<"C99:4">>} => callResult = EmptyRules
\* a rule overwritten by a later one for the same index, with a malformed
\* token between them
C19_Witness ==
    /\ callResult # NoCall
    /\ callArgs.tokens = <<"C1:4", "X9:9", "C1:2">>
    /\ callArgs.baseCols = 10
    /\ callResult = [cols |-> (1 :> 2), rows |-> EmptyMap]

\* a count as generateGrid is meant to read it: 1 for NaN, zero and negatives
AtLeastOne(n) == IF isNaN(n) \/ n.v < 1 THEN Num(1) ELSE n

\* C20: grid dimensions are sanitized to at least 1: generateGrid called with
\* a NaN, zero or negative baseCols or baseRows returns the grid it returns
\* with that count equal to 1; and whatever counts are typed in before the
\* regenerates, every snapshot's gridConfig has baseCols >= 1 and
\* baseRows >= 1, and a regenerate pushes the grid of the rules range-checked
\* against the sanitized counts.
C20_CountsSanitized ==
    /\ [](callResult # NoCall =>
            callResult = generateGrid(AtLeastOne(callArgs.baseCols),
                                      AtLeastOne(callArgs.baseRows), callArgs.rules))
    /\ [](\A k \in DOMAIN history :
            /\ PositiveCount(history[k].gridConfig.baseCols)
            /\ PositiveCount(history[k].gridConfig.baseRows))
    /\ [][ handleRegenerateGrid =>
            LET pushed == StateAt(history', index')
                cols == AtLeastOne(gridConfig.baseCols)
                rows == AtLeastOne(gridConfig.baseRows)
                grid == generateGrid(cols, rows,
                          parseSubdivisionRules(gridConfig.ruleString, cols.v, rows.v))
            IN  /\ pushed.gridConfig =
                     [gridConfig EXCEPT !.baseCols = cols, !.baseRows = rows]
                /\ pushed.vertices = grid.vertices
                /\ pushed.cells = grid.cells ]_vars
\* generateGrid has returned from a call without a column count, and a
\* regenerate has just pushed a one-by-one grid for counts it had to sanitize:
\* the column rule C0:2 applies, the row rule R1:2 is out of range
C20_Witness ==
    /\ callResult # NoCall /\ callArgs.baseCols = NaN /\ callArgs.baseRows = Num(0)
    /\ Len(callResult.vertices) = 3 * 3
    /\ lastOp = "sanitize"
    /\ index = 1
    /\ history[2].gridConfig.baseCols = Num(1)
    /\ history[2].gridConfig.baseRows = Num(1)
    /\ Len(history[2].vertices) = 3 * 2

\* the multipliers generateGrid uses for the count's divisions (1 where no rule)
Effective(map, count) == [c \in 0..(count - 1) |-> Multiplier(map, c)]
\* the vertex of row r, column c (0-based) of a grid with totalXPoints per row
VertexOf(grid, r, c, totalXPoints) == grid.vertices[r * totalXPoints + c + 1]
\* |a - b| <= tolerance, on numerals
Near(a, b, tolerance) ==
    /\ NumeralLeq(a, AddNumerals(b, tolerance))
    /\ NumeralLeq(b, AddNumerals(a, tolerance))
\* an absolute error of 2^-30, about 1e-9
Tolerance == DoublePow2Neg(30)

\* Along one axis: `at[k]` is the coordinate of point k (0-based, k + 1 in
\* at), `count` the logical divisions, `map` their multipliers, `span` the
\* drawable span.  Exactly: the first point is at the margin, the last at
\* margin + span, the coordinates never decrease, and the strips of each
\* logical division add up to span / count.
AxisExact(at, count, map, span) ==
    /\ at[1] = DoubleOf(GRID_MARGIN)
    /\ at[Len(at)] = DoubleOf(GRID_MARGIN + span)
    /\ \A k \in 1..(Len(at) - 1) : NumeralLeq(at[k], at[k + 1])
    /\ \A i \in 0..(count - 1) :
          LET first == SumOfMultipliers(map, i) + 1
              last == SumOfMultipliers(map, i + 1) + 1
          IN  MulNumeral(at[last], count)
                = AddNumerals(MulNumeral(at[first], count), DoubleOf(span))
\* the same with the last point and the sums within the tolerance
AxisWithinTolerance(at, count, map, span) ==
    /\ at[1] = DoubleOf(GRID_MARGIN)
    /\ Near(at[Len(at)], DoubleOf(GRID_MARGIN + span), Tolerance)
    /\ \A k \in 1..(Len(at) - 1) : NumeralLeq(at[k], at[k + 1])
    /\ \A i \in 0..(count - 1) :
          LET first == SumOfMultipliers(map, i) + 1
              last == SumOfMultipliers(map, i + 1) + 1
          IN  Near(MulNumeral(at[last], count),
                   AddNumerals(MulNumeral(at[first], count), DoubleOf(span)),
                   MulNumeral(Tolerance, count))
\* the x of every point of row r, and the y of every point of column c
RowXs(grid, r, totalXPoints) ==
    [c \in 1..totalXPoints |-> VertexOf(grid, r, c - 1, totalXPoints).x]
ColumnYs(grid, c, totalXPoints, totalYPoints) ==
    [r \in 1..totalYPoints |-> VertexOf(grid, r - 1, c, totalXPoints).y]

\* C18, within floating-point tolerance: subdivision preserves span up to
\* the rounding of doubles.  In the grid generateGrid returns, in every row
\* the first vertex has x = margin, the last has x within 2^-30 of
\* width - margin, x never decreases along the row, and the strips of each
\* logical column add up to drawableWidth / baseCols within that tolerance;
\* likewise for y along every column.
C18_SpanWithinTolerance ==
    callResult # NoCall =>
      LET cols == Effective(callArgs.rules.cols, callArgs.baseCols.v)
          rows == Effective(callArgs.rules.rows, callArgs.baseRows.v)
          totalXPoints == SumOfMultipliers(cols, callArgs.baseCols.v) + 1
          totalYPoints == SumOfMultipliers(rows, callArgs.baseRows.v) + 1
      IN  /\ \A r \in 0..(totalYPoints - 1) :
                AxisWithinTolerance(RowXs(callResult, r, totalXPoints),
                                    callArgs.baseCols.v, cols,
                                    SVG_WIDTH - 2 * GRID_MARGIN)
          /\ \A c \in 0..(totalXPoints - 1) :
                AxisWithinTolerance(ColumnYs(callResult, c, totalXPoints, totalYPoints),
                                    callArgs.baseRows.v, rows,
                                    SVG_HEIGHT - 2 * GRID_MARGIN)
\* the start-up grid: its last row lies within the tolerance of
\* height - margin, and not on it
C18_Witness ==
    /\ callResult # NoCall
    /\ callArgs.baseCols = Num(10) /\ callArgs.baseRows = Num(21)
    /\ callArgs.rules = [cols |-> (1 :> 4), rows |-> (3 :> 2)]
    /\ Len(callResult.vertices) = 14 * 23
    /\ callResult.vertices[14].x = DoubleOf(SVG_WIDTH - GRID_MARGIN)
    /\ callResult.vertices[14 * 23].y # DoubleOf(SVG_HEIGHT - GRID_MARGIN)
    /\ Near(callResult.vertices[14 * 23].y, DoubleOf(SVG_HEIGHT - GRID_MARGIN), Tolerance)
\* C18, exactly: subdivision preserves span.  The strips of logical
\* column i sum exactly to drawableWidth / baseCols and the strips along each
\* axis to the drawable span, so in every row the first vertex is at
\* x = margin and the last at x = width - margin with x non-decreasing along
\* the row, and likewise for y along columns.
C18_SpanExact ==
    callResult # NoCall =>
      LET cols == Effective(callArgs.rules.cols, callArgs.baseCols.v)
          rows == Effective(callArgs.rules.rows, callArgs.baseRows.v)
          totalXPoints == SumOfMultipliers(cols, callArgs.baseCols.v) + 1
          totalYPoints == SumOfMultipliers(rows, callArgs.baseRows.v) + 1
      IN  /\ \A r \in 0..(totalYPoints - 1) :
                AxisExact(RowXs(callResult, r, totalXPoints),
                          callArgs.baseCols.v, cols, SVG_WIDTH - 2 * GRID_MARGIN)
          /\ \A c \in 0..(totalXPoints - 1) :
                AxisExact(ColumnYs(callResult, c, totalXPoints, totalYPoints),
                          callArgs.baseRows.v, rows, SVG_HEIGHT - 2 * GRID_MARGIN)

\* =====================================================================
\* Properties of the geometry queries (checked under SpecPolygon)
\* =====================================================================

\* the smallest and the largest of a polygon's coordinates along one axis
Least(values) == CHOOSE v \in values : \A w \in values : v <= w
Greatest(values) == CHOOSE v \in values : \A w \in values : w <= v
Xs(vs) == {vs[i].x : i \in DOMAIN vs}
Ys(vs) == {vs[i].y : i \in DOMAIN vs}
\* the point lies strictly inside / strictly outside the rectangle spanned
\* by the polygon's corners (a point with denominator d stands for x/d, y/d)
StrictlyInside(point, vs) ==
    LET d == Den(point)
    IN  /\ d * Least(Xs(vs)) < point.x /\ point.x < d * Greatest(Xs(vs))
        /\ d * Least(Ys(vs)) < point.y /\ point.y < d * Greatest(Ys(vs))
StrictlyOutside(point, vs) ==
    LET d == Den(point)
    IN  \/ point.x < d * Least(Xs(vs)) \/ point.x > d * Greatest(Xs(vs))
        \/ point.y < d * Least(Ys(vs)) \/ point.y > d * Greatest(Ys(vs))

\* C21: isPointInPolygon returns false for every point when the polygon has
\* fewer than 3 points; for an axis-aligned rectangle given in order (the
\* square (0,0),(10,0),(10,10),(0,10) among them) it returns true for every
\* point strictly inside and false for every point strictly outside, the
\* edge from the last point back to the first counted.
C21_PointInRectangle ==
    (callArgs.fn = "isPointInPolygon" /\ callResult # NoCall) =>
        /\ Len(callArgs.vs) < 3 => ~callResult.returned
        /\ Len(callArgs.vs) >= 3 =>
              /\ StrictlyInside(callArgs.point, callArgs.vs) => callResult.returned
              /\ StrictlyOutside(callArgs.point, callArgs.vs) => ~callResult.returned

\* the spec's example: (5,5) is found inside the square
C21_Witness ==
    /\ callArgs.fn = "isPointInPolygon"
    /\ callArgs.vs = Square
    /\ callArgs.point = Pt(5, 5)
    /\ callResult = [returned |-> TRUE]

\* =====================================================================
\* Properties of the displacement colour (checked under SpecColor)
\* =====================================================================

\* the sum of the four corners' distances from rest (four times the average)
TotalDisplacement(cell, vertices) ==
    LET Dist(k) ==
          LET v == vertices[cell.v_indices[k] + 1]
          IN  Sqrt((v.x - v.originalX) * (v.x - v.originalX)
                     + (v.y - v.originalY) * (v.y - v.originalY))
    IN  Dist(1) + Dist(2) + Dist(3) + Dist(4)
AtRest(cell, vertices) ==
    \A k \in 1..4 :
        LET v == vertices[cell.v_indices[k] + 1]
        IN  v.x = v.originalX /\ v.y = v.originalY
Black == <<"#", "0", "0", "0", "0", "0", "0">>
\* the calls a returned colour is compared with: same cell, two corners at
\* rest, the other two anywhere
ComparedCalls ==
    {c \in ColorCalls(history[1]) : \A k \in 3..4 :
        LET v == c.vertices[c.cell.v_indices[k] + 1]
        IN  v.x = v.originalX /\ v.y = v.originalY}

\* C22: for any fixed scale displacementColor is monotonically non-decreasing
\* in the average corner displacement (a cell displaced no more than another
\* is drawn no lighter), and it is exactly #000000 when all four corners of
\* the cell are at their rest positions, for any scale.
C22_ColorMonotone ==
    (callArgs.fn = "getDisplacementColor" /\ callResult # NoCall) =>
        /\ AtRest(callArgs.cell, callArgs.vertices) => callResult.returned = Black
        /\ \A other \in ComparedCalls :
              other.scale = callArgs.scale =>
                LET less == TotalDisplacement(other.cell, other.vertices)
                    more == TotalDisplacement(callArgs.cell, callArgs.vertices)
                    gray == Intensity(other.cell, other.vertices, other.scale)
                IN  /\ less <= more => gray <= callResult.intensity
                    /\ less >= more => gray >= callResult.intensity

\* the value of a string of hexadecimal digits (-1 if it is none)
HexValue(str) ==
    IF str = <<>> \/ \E i \in DOMAIN str : \A d \in DOMAIN HexDigits : HexDigits[d] # str[i]
    THEN -1
    ELSE LET Digit(i) == (CHOOSE d \in DOMAIN HexDigits : HexDigits[d] = str[i]) - 1
             F[i \in 0..Len(str)] == IF i = 0 THEN 0 ELSE 16 * F[i - 1] + Digit(i)
         IN  F[Len(str)]

\* C23: the gray intensity is floor(avgDistance * scale * 200) clamped to
\* [0, 255]: for every non-negative average displacement and every scale,
\* positive, zero or negative, the intensity is a whole number in 0..255
\* (the clamped floor of the exact product, or one off it where the doubles
\* round across a whole number) and the result is a well-formed #RRGGBB
\* string with R = G = B.
C23_IntensityClamped ==
    (callArgs.fn = "getDisplacementColor" /\ callResult # NoCall) =>
        LET total == TotalDisplacement(callArgs.cell, callArgs.vertices)
            signed == IF callArgs.scale.neg THEN -callArgs.scale.hundredths
                      ELSE callArgs.scale.hundredths
            exact == Max(0, Min(255, (total * signed) \div 2))
            color == callResult.returned
        IN  /\ callResult.intensity \in 0..255
            /\ callResult.intensity \in (exact - 1)..(exact + 1)
            /\ Len(color) = 7
            /\ color[1] = "#"
            /\ HexValue(SubSeq(color, 2, 3)) = callResult.intensity
            /\ SubSeq(color, 4, 5) = SubSeq(color, 2, 3)
            /\ SubSeq(color, 6, 7) = SubSeq(color, 2, 3)

\* =====================================================================
\* Properties of the snapshots in the History Store (checked under Spec)
\* =====================================================================

\* C24: in every snapshot of the History Store a cell with isFilled = false
\* has color = null and a cell with isFilled = true has a color that is not
\* null, whatever operations produced the snapshot.
C24_FillMatchesColor ==
    \A i \in DOMAIN history :
        \A k \in DOMAIN history[i].cells :
            LET cell == history[i].cells[k]
            IN  /\ ~cell.isFilled => cell.color = "null"
                /\ cell.isFilled => cell.color # "null"

\* a cell painted and then un-painted: the snapshot in between holds it
\* filled, the current one unfilled
C24_Witness ==
    /\ Len(history) = 3
    /\ index = 2
    /\ history[2].cells[1].isFilled
    /\ history[2].cells[1].color = "#b8b3b3"
    /\ ~history[3].cells[1].isFilled
    /\ history[3].cells = history[1].cells

\* =====================================================================
\* Push, undo and redo together (checked under SpecHistory)
\* =====================================================================

\* C25: immediately after push(s), current() returns s, in every state of
\* the History Store, one that holds 50 snapshots with the index at the last
\* position and repeated pushes beyond the capacity included.
C25_PushSetsCurrent ==
    [][ lastOp' = "push" =>
          StateAt(history', index') = Snap(pushes') ]_vars

\* C26: a push is undoable and leaves the stored snapshots as they are: from
\* any state with current snapshot p, push(s) followed by undo() makes
\* current() equal to p again unless that push evicted p, also when the
\* history was at its capacity of 50; every snapshot in the sequence after a
\* step was in it before, unchanged, or is the one just pushed.
C26_PushIsUndoable ==
    [][ /\ (pushes' = pushes + 1 /\ currentState # Undefined
              /\ \E i \in DOMAIN history' : history'[i] = currentState) =>
            StateAt(history', UndoIndex(index')) = currentState
        /\ \A i \in DOMAIN history' :
              \/ \E k \in DOMAIN history : history[k] = history'[i]
              \/ i = Len(history') /\ pushes' = pushes + 1 ]_vars

\* C27: undo and redo are inverse: where canUndo holds, undo() followed by
\* redo() restores the index and the current snapshot, and where canRedo
\* holds, redo() followed by undo() restores them.
C27_UndoRedoInverse ==
    [][ /\ (lastOp' = "undo" /\ canUndo) =>
            /\ RedoIndex(history', index') = index
            /\ StateAt(history', RedoIndex(history', index')) = currentState
        /\ (lastOp' = "redo" /\ canRedo) =>
            /\ UndoIndex(index') = index
            /\ StateAt(history', UndoIndex(index')) = currentState ]_vars

\* =====================================================================
\* Working copy and document (checked under Spec)
\* =====================================================================

\* the vertex lists have the same ids and rest positions, place by place
SameTopology(verts, others) ==
    /\ DOMAIN verts = DOMAIN others
    /\ \A i \in DOMAIN verts :
          /\ verts[i].id = others[i].id
          /\ verts[i].originalX = others[i].originalX
          /\ verts[i].originalY = others[i].originalY

C30_RegenerateIsFresh ==
    [][ handleRegenerateGrid =>
          LET pushed == history'[Len(history')]
              fresh == GridOf(pushed.gridConfig)
          IN  /\ pushes' = pushes + 1
              /\ Len(history') = index + 2
              /\ index' = index + 1
              /\ \A k \in 1..(index + 1) : history'[k] = history[k]
              /\ pushed.gridConfig.baseCols = AtLeastOne(gridConfig.baseCols)
              /\ pushed.gridConfig.baseRows = AtLeastOne(gridConfig.baseRows)
              /\ pushed.gridConfig.ruleString = gridConfig.ruleString
              /\ pushed.vertices = fresh.vertices
              /\ pushed.cells = fresh.cells
              /\ \A i \in DOMAIN pushed.vertices :
                    /\ pushed.vertices[i].x = pushed.vertices[i].originalX
                    /\ pushed.vertices[i].y = pushed.vertices[i].originalY
              /\ \A k \in DOMAIN pushed.cells :
                    ~pushed.cells[k].isFilled /\ pushed.cells[k].color = "null"
              /\ pushed.boundaryPoints = currentState.boundaryPoints ]_vars

\* a mask was finished and the grid then regenerated with one row: the new
\* snapshot has another grid and the same mask
C30_Witness ==
    /\ Len(history) = 3
    /\ index = 2
    /\ Len(history[2].boundaryPoints) = 3
    /\ history[3].boundaryPoints = history[2].boundaryPoints
    /\ history[2].gridConfig = INITIAL_CONFIG
    /\ history[3].gridConfig.baseRows = Num(1)
    /\ Len(history[3].vertices) < Len(history[2].vertices)


\* =====================================================================
\* Reset and paint as steps of the editor
\* =====================================================================

\* the snapshot with every vertex put on its rest position
AtRestPositions(st) ==
    [st EXCEPT !.vertices =
        [i \in DOMAIN st.vertices |->
            [st.vertices[i] EXCEPT !.x = st.vertices[i].originalX,
                                   !.y = st.vertices[i].originalY]]]

\* C31: reset-to-rest pushes exactly one snapshot; in it every vertex has
\* x = originalX and y = originalY, and its vertex ids, rest positions,
\* cells, boundary polygon and gridConfig are those of the snapshot that was
\* current before; an undo() that follows makes that earlier snapshot, with
\* its deformed positions, the current one again.
C31_ResetIsUndoable ==
    [][ handleResetPositions =>
          LET before == currentState
              pushed == history'[Len(history')]
          IN  /\ pushes' = pushes + 1
              /\ \A i \in DOMAIN pushed.vertices :
                    /\ pushed.vertices[i].x = pushed.vertices[i].originalX
                    /\ pushed.vertices[i].y = pushed.vertices[i].originalY
              /\ pushed = AtRestPositions(before)
              /\ \A k \in 1..(Len(history') - 1) :
                    \E j \in DOMAIN history : history'[k] = history[j]
              /\ StateAt(history', UndoIndex(index')) = before ]_vars


\* C32: a cell click that is accepted pushes exactly one snapshot, which
\* differs from the snapshot that was current only in the clicked cell: that
\* cell becomes unfilled with null color if it was filled with the active
\* color, and filled with the active color otherwise; every other cell, the
\* gridConfig and all vertex ids and rest positions are carried over. A
\* second accepted click with the same active color on a cell that was
\* unfilled before the first (in the snapshot before the current one)
\* returns it to what it was then, unfilled.
C32_ClickTogglesOneCell ==
    [][ \A id \in ClickCellIds :
          (handleCellClick(id) /\ pushes' = pushes + 1) =>
            LET before == currentState
                pushed == history'[Len(history')]
                ci == CHOOSE i \in DOMAIN before.cells : before.cells[i].id = id
                was == before.cells[ci]
                now == pushed.cells[ci]
            IN  /\ \A k \in 1..(Len(history') - 1) :
                      \E j \in DOMAIN history : history'[k] = history[j]
                /\ DOMAIN pushed.cells = DOMAIN before.cells
                /\ \A k \in DOMAIN before.cells :
                      k # ci => pushed.cells[k] = before.cells[k]
                /\ now.id = was.id /\ now.v_indices = was.v_indices
                /\ IF was.isFilled /\ was.color = activeColor
                   THEN ~now.isFilled /\ now.color = "null"
                   ELSE now.isFilled /\ now.color = activeColor
                /\ pushed.gridConfig = before.gridConfig
                /\ pushed.boundaryPoints = before.boundaryPoints
                /\ DOMAIN pushed.vertices = DOMAIN before.vertices
                /\ \A i \in DOMAIN before.vertices :
                      /\ pushed.vertices[i].id = before.vertices[i].id
                      /\ pushed.vertices[i].originalX = before.vertices[i].originalX
                      /\ pushed.vertices[i].originalY = before.vertices[i].originalY
                /\ ( /\ index >= 1
                     /\ history[index].gridConfig = before.gridConfig
                     /\ ~history[index].cells[ci].isFilled
                     /\ was.isFilled /\ was.color = activeColor )
                   => now = history[index].cells[ci] ]_vars

\* cell 0 was clicked twice with the initial colour: filled in the snapshot
\* in between, and the current snapshot is equal to the first
C32_Witness ==
    /\ Len(history) = 3
    /\ index = 2
    /\ pushes = 2
    /\ activeColor = "#888888"
    /\ ~history[1].cells[1].isFilled
    /\ history[2].cells[1].isFilled
    /\ history[2].cells[1].color = "#888888"
    /\ history[3] = history[1]
    /\ history[2].vertices = history[1].vertices

====
